---------------------------- MODULE Spec2Model ----------------------------
(***************************************************************************)
(* A model of the value-and-type subsystem of cel-cpp:                     *)
(*   - the protocol-buffer struct bridge (ProtoStructType and              *)
(*     ProtoStructValueBuilder, extensions/protobuf/struct_type.cc),       *)
(*   - value construction (CelValue::CreateDuration, ValueFactory),        *)
(*   - equality of values (DoubleValue::Equals, StringValue::Equal,        *)
(*     LegacyMapValue::Equal, Value::Equal),                               *)
(*   - the parameterized-type caches of TypeFactory,                       *)
(*   - the builtin type singleton UintType::Get,                           *)
(*   - the conformance server's command loop (RunServer),                  *)
(*   - the lazy-initialisation steps of the evaluator.                     *)
(* The specifications share the variables: Spec (the struct builder),      *)
(* SpecValue (constructors, equality and other pure operations, applied to *)
(* inputs drawn from bounded sets), SpecTypeFactory (threads calling the   *)
(* type factory), SpecSingleton (threads calling UintType::Get),           *)
(* SpecServer (the command loop), SpecFrame (evaluator steps), SpecMove     *)
(* (moves and uses of Value objects), SpecIterator (the field iterator of  *)
(* a struct type) and SpecLegacy (threads using legacy map values).        *)
(***************************************************************************)
EXTENDS Integers, Sequences, FiniteSets, TLC

VARIABLES
    message,     \* ProtoStructValueBuilder::message_: field name -> stored content
    status,      \* absl::Status returned by the last SetFieldByName/Number call
    path,        \* member functions the last builder call went through
    lastCall,    \* arguments of the last builder call, and the message it found
    ncalls,      \* number of builder calls made so far
    op,          \* SpecValue: the last operation applied and its arguments
    result,      \* SpecValue: what that operation returned
    pc,          \* SpecTypeFactory: per thread, the position in its Create*Type call
    call,        \* SpecTypeFactory: per thread, the cache and key of its call
    holder,      \* SpecTypeFactory: per cache, the thread holding its mutex (0: free)
    cache,       \* SpecTypeFactory: per cache, the interned types, key -> handle
    nextImpl,    \* SpecTypeFactory: next fresh allocation (Handle impl_ pointer)
    returned,    \* SpecTypeFactory: results returned so far, <<cache, key, handle>>
    ncreate,     \* SpecTypeFactory: per thread, number of calls started
    instance_once,     \* SpecSingleton: the absl::once_flag of UintType
    instance_storage,  \* SpecSingleton: the storage of the singleton handle
    getter,      \* SpecSingleton: per thread, its position in UintType::Get and what it returned
    server,      \* SpecServer: RunServer's position, input read, output written, exit code
    frame,       \* SpecFrame: the execution frame: slots, value stack, program counter
    values,      \* SpecMove: the Value objects, the last operation on them and its result
    iterator,    \* SpecIterator: the field iterator, its struct type and its last call
    legacy       \* SpecLegacy: the once flag and function table of the legacy map value, and the threads

builderVars == <<message, status, path, lastCall, ncalls>>
valueVars   == <<op, result>>
factoryVars == <<pc, call, holder, cache, nextImpl, returned, ncreate>>
singletonVars == <<instance_once, instance_storage, getter>>
serverVars  == <<server>>
frameVars   == <<frame>>
moveVars    == <<values>>
iteratorVars == <<iterator>>
legacyVars  == <<legacy>>
vars        == <<message, status, path, lastCall, ncalls, op, result,
                 pc, call, holder, cache, nextImpl, returned, ncreate,
                 instance_once, instance_storage, getter, server, frame,
                 values, iterator, legacy>>

---------------------------------------------------------------------------
(* Bounds of the model.                                                    *)

\* Number of SetFieldByName/SetFieldByNumber calls made on one builder.
MaxCalls == 2
\* Number of threads using legacy map values, and of operations each calls.
MaxUsers == 2
MaxUses == 2
\* Number of threads sharing one TypeFactory.
MaxThreads == 2
\* Number of Create*Type calls each thread makes.
MaxCreates == 2
\* Number of threads calling UintType::Get, and of calls each makes.
MaxGetters == 3
MaxGets == 2
\* Number of commands the conformance server reads.
MaxCommands == 2

---------------------------------------------------------------------------
(* 64-bit machine integers.  TLC's integers are 32 bits wide, so an       *)
(* int64_t or uint64_t is the tuple <<l3, l2, l1, l0>> of its four 16-bit  *)
(* limbs, most significant first (two's complement for int64_t).           *)

Limb == 2^16

\* Carry propagation; the carry out of the top limb is dropped (mod 2^64).
Norm(c3, c2, c1, c0) ==
    LET t1 == c1 + (c0 \div Limb)
        t2 == c2 + (t1 \div Limb)
        t3 == c3 + (t2 \div Limb)
    IN  <<t3 % Limb, t2 % Limb, t1 % Limb, c0 % Limb>>

W(n) == Norm(0, 0, 0, n)                      \* 0 <= n < 2^31
AddW(x, y) == Norm(x[1] + y[1], x[2] + y[2], x[3] + y[3], x[4] + y[4])
MulSmall(x, k) == Norm(x[1] * k, x[2] * k, x[3] * k, x[4] * k)   \* k <= 1000
NegW(x) == AddW(<<Limb - 1 - x[1], Limb - 1 - x[2], Limb - 1 - x[3], Limb - 1 - x[4]>>, W(1))
SubW(x, y) == AddW(x, NegW(y))

\* A number written in decimal, three digits to a group:
\* Dec(<<315, 576, 0, 1>>) is 315576000001.
RECURSIVE DecFrom(_, _)
DecFrom(acc, groups) ==
    IF groups = <<>> THEN acc
    ELSE DecFrom(AddW(MulSmall(acc, 1000), W(Head(groups))), Tail(groups))
Dec(groups) == DecFrom(W(0), groups)

\* 2^k as a 64-bit word, 0 <= k <= 63.
Pow2(k) == [i \in 1..4 |-> IF 4 - i = k \div 16 THEN 2^(k % 16) ELSE 0]

\* Unsigned and signed (two's complement) order.
ULess(x, y) ==
    \E i \in 1..4 : x[i] < y[i] /\ \A j \in 1..(i - 1) : x[j] = y[j]
FlipSign(x) == <<(x[1] + 2^15) % Limb, x[2], x[3], x[4]>>
SLess(x, y) == ULess(FlipSign(x), FlipSign(y))
IsNegative(x) == x[1] >= 2^15

\* std::numeric_limits, as int64_t or uint64_t values.
Int32Min  == NegW(Pow2(31))
Int32Max  == SubW(Pow2(31), W(1))
UInt32Max == SubW(Pow2(32), W(1))

\* static_cast<int32_t>(int64_t): the low 32 bits, sign-extended back to
\* the 64 bits the stored field is compared in.
CastInt32(v) ==
    IF v[3] >= 2^15 THEN <<Limb - 1, Limb - 1, v[3], v[4]>> ELSE <<0, 0, v[3], v[4]>>
\* static_cast<uint32_t>(uint64_t): the low 32 bits.
CastUInt32(v) == <<0, 0, v[3], v[4]>>

---------------------------------------------------------------------------
(* absl::Status.                                                           *)

OkStatus == [code |-> "ok", msg |-> ""]
InvalidArgumentError(m)    == [code |-> "invalid_argument", msg |-> m]
OutOfRangeError(m)         == [code |-> "out_of_range", msg |-> m]
UnimplementedError(m)      == [code |-> "unimplemented", msg |-> m]
NotFoundError(m)           == [code |-> "not_found", msg |-> m]
FailedPreconditionError(m) == [code |-> "failed_precondition", msg |-> m]
InternalError(m)           == [code |-> "internal", msg |-> m]

\* interop_internal::CreateNoSuchFieldError; "not found" is the code the
\* error taxonomy gives a missing field.
CreateNoSuchFieldError(field) == [code |-> "not_found", msg |-> "no_such_field"]

TypeConversionError == InvalidArgumentError("type conversion error")

---------------------------------------------------------------------------
(* absl::StatusOr<T>.                                                      *)

Ok(v)     == [ok |-> TRUE, val |-> v]
Err(st)   == [ok |-> FALSE, status |-> st]

---------------------------------------------------------------------------
(* Doubles.  A double is NaN, an infinity, or a finite value               *)
(* (-1)^neg * (mag + half/2) with mag a 64-bit magnitude: the integers and *)
(* half-integers are all the comparisons and the float narrowing need.     *)

Nan        == [cls |-> "nan", neg |-> FALSE, mag |-> W(0), half |-> 0]
Inf(neg)   == [cls |-> "inf", neg |-> neg, mag |-> W(0), half |-> 0]
Fin(neg, mag, half) == [cls |-> "fin", neg |-> neg, mag |-> mag, half |-> half]

IsZero(d) == d.cls = "fin" /\ d.mag = W(0) /\ d.half = 0

\* A faulty variant of DoubleEq, kept to show that the properties tell it
\* apart: the two representations are compared bit for bit.
DoubleEqBitwise(a, b) == a = b

\* The operator == of C++ on two doubles (IEEE 754): false when either is
\* NaN, +0 equals -0.
DoubleEq(a, b) ==
    /\ a.cls # "nan"
    /\ b.cls # "nan"
    /\ \/ IsZero(a) /\ IsZero(b)
       \/ a = b

\* Position of the highest and of the lowest set bit of a non-zero word,
\* counted from 0 at the least significant bit.
HighBit(x) ==
    CHOOSE k \in 0..63 :
        /\ ~ULess(x, Pow2(k))
        /\ k < 63 => ULess(x, Pow2(k + 1))
BitSet(x, k) == (x[4 - (k \div 16)] \div 2^(k % 16)) % 2 = 1
LowBit(x) == CHOOSE k \in 0..63 : BitSet(x, k) /\ \A j \in 0..(k - 1) : ~BitSet(x, j)

\* static_cast<double>(static_cast<float>(d)) == d: a NaN never compares
\* equal, an infinity and a zero survive, a finite value survives when its
\* significand fits the 24 bits of a float (every magnitude here is below
\* FLT_MAX).
FloatRoundTrips(d) ==
    CASE d.cls = "nan" -> FALSE
      [] d.cls = "inf" -> TRUE
      [] IsZero(d)     -> TRUE
      [] d.half = 1    -> d.mag = W(0) \/ HighBit(d.mag) + 2 <= 24
      [] OTHER         -> HighBit(d.mag) - LowBit(d.mag) + 1 <= 24

---------------------------------------------------------------------------
(* Values (cel::Value) and types (cel::Type).                              *)

NullValue           == [kind |-> "null"]
BoolValue(b)        == [kind |-> "bool", bool |-> b]
IntValue(w)         == [kind |-> "int", int |-> w]
UintValue(w)        == [kind |-> "uint", uint |-> w]
DoubleValue(d)      == [kind |-> "double", double |-> d]
\* The payload of a string or bytes value is its sequence of bytes.
StringValue(s)      == [kind |-> "string", string |-> s]
BytesValue(s)       == [kind |-> "bytes", bytes |-> s]
\* absl::Duration and absl::Time: whole seconds (64 bits) and nanoseconds.
DurationValue(sec, ns)  == [kind |-> "duration", sec |-> sec, ns |-> ns]
TimestampValue(sec, ns) == [kind |-> "timestamp", sec |-> sec, ns |-> ns]
EnumValue(name, number) == [kind |-> "enum", name |-> name, number |-> number]
ListValue(element, elems) == [kind |-> "list", element |-> element, elems |-> elems]
MapValue(entries)   == [kind |-> "map", entries |-> entries]
StructValue(name)   == [kind |-> "struct", name |-> name]
ErrorValue(st)      == [kind |-> "error", status |-> st]
UnknownValue(attrs) == [kind |-> "unknown", attrs |-> attrs]

\* value->Is<V>().
Is(value, V) == value.kind = V

\* value->As<V>().value() of the primitive kinds.
ValueOf(v) ==
    CASE v.kind = "bool"   -> v.bool
      [] v.kind = "int"    -> v.int
      [] v.kind = "uint"   -> v.uint
      [] v.kind = "double" -> v.double
      [] v.kind = "string" -> v.string
      [] v.kind = "bytes"  -> v.bytes

SimpleType(kind)    == [kind |-> kind]
ListType(element)   == [kind |-> "list", element |-> element]
WrapperType(wrapped) == [kind |-> "wrapper", wrapped |-> wrapped]
StructType(name)    == [kind |-> "struct", name |-> name]
EnumType(name)      == [kind |-> "enum", name |-> name]
MapType(key, value) == [kind |-> "map", key |-> key, value |-> value]

---------------------------------------------------------------------------
(* The message schema (google::protobuf::Descriptor): the fields in        *)
(* declaration order, as the test message TestAllTypes declares them.      *)

FieldDesc(name, number, type, label, message_type) ==
    [name |-> name, number |-> number, type |-> type, label |-> label,
     message_type |-> message_type]

Descriptor ==
    << FieldDesc("single_int32", 1, "TYPE_INT32", "optional", ""),
       FieldDesc("single_int64", 2, "TYPE_INT64", "optional", ""),
       FieldDesc("single_uint32", 3, "TYPE_UINT32", "optional", ""),
       FieldDesc("single_uint64", 4, "TYPE_UINT64", "optional", ""),
       FieldDesc("single_sint32", 5, "TYPE_SINT32", "optional", ""),
       FieldDesc("single_sfixed32", 9, "TYPE_SFIXED32", "optional", ""),
       FieldDesc("single_float", 11, "TYPE_FLOAT", "optional", ""),
       FieldDesc("single_double", 12, "TYPE_DOUBLE", "optional", ""),
       FieldDesc("single_bool", 13, "TYPE_BOOL", "optional", ""),
       FieldDesc("single_string", 14, "TYPE_STRING", "optional", ""),
       FieldDesc("single_bytes", 15, "TYPE_BYTES", "optional", ""),
       FieldDesc("standalone_message", 21, "TYPE_MESSAGE", "optional", "NestedMessage"),
       FieldDesc("standalone_enum", 22, "TYPE_ENUM", "optional", "NestedEnum"),
       FieldDesc("unregistered_message", 23, "TYPE_MESSAGE", "optional", "Unregistered"),
       FieldDesc("foreign_message", 24, "TYPE_MESSAGE", "optional", "ForeignMessage"),
       FieldDesc("failing_message", 25, "TYPE_MESSAGE", "optional", "FailingMessage"),
       FieldDesc("repeated_int32", 31, "TYPE_INT32", "repeated", ""),
       FieldDesc("repeated_uint32", 33, "TYPE_UINT32", "repeated", ""),
       FieldDesc("repeated_string", 44, "TYPE_STRING", "repeated", ""),
       FieldDesc("repeated_nested_message", 51, "TYPE_MESSAGE", "repeated", "NestedMessage"),
       FieldDesc("repeated_nested_enum", 52, "TYPE_ENUM", "repeated", "NestedEnum"),
       FieldDesc("map_string_string", 61, "TYPE_MESSAGE", "map", "MapStringStringEntry"),
       FieldDesc("map_string_int64_wrapper", 62, "TYPE_MESSAGE", "map", "MapStringInt64WrapperEntry"),
       FieldDesc("single_any", 100, "TYPE_MESSAGE", "optional", "google.protobuf.Any"),
       FieldDesc("single_duration", 101, "TYPE_MESSAGE", "optional", "google.protobuf.Duration"),
       FieldDesc("single_timestamp", 102, "TYPE_MESSAGE", "optional", "google.protobuf.Timestamp"),
       FieldDesc("single_struct", 103, "TYPE_MESSAGE", "optional", "google.protobuf.Struct"),
       FieldDesc("single_value", 104, "TYPE_MESSAGE", "optional", "google.protobuf.Value"),
       FieldDesc("single_int64_wrapper", 105, "TYPE_MESSAGE", "optional", "google.protobuf.Int64Value"),
       FieldDesc("list_value", 114, "TYPE_MESSAGE", "optional", "google.protobuf.ListValue"),
       FieldDesc("repeated_int64_wrapper", 205, "TYPE_MESSAGE", "repeated", "google.protobuf.Int64Value") >>

\* The entry messages of the map fields: the descriptors of key and value.
MapEntries ==
    [MapStringStringEntry |->
        [key   |-> FieldDesc("key", 1, "TYPE_STRING", "optional", ""),
         value |-> FieldDesc("value", 2, "TYPE_STRING", "optional", "")],
     MapStringInt64WrapperEntry |->
        [key   |-> FieldDesc("key", 1, "TYPE_STRING", "optional", ""),
         value |-> FieldDesc("value", 2, "TYPE_MESSAGE", "optional", "google.protobuf.Int64Value")]]
map_key(field_desc)   == MapEntries[field_desc.message_type].key
map_value(field_desc) == MapEntries[field_desc.message_type].value

is_map(field_desc)      == field_desc.label = "map"
is_repeated(field_desc) == field_desc.label \in {"repeated", "map"}

FieldNames   == {Descriptor[i].name : i \in 1..Len(Descriptor)}
FieldNumbers == {Descriptor[i].number : i \in 1..Len(Descriptor)}

\* Descriptor::FindFieldByName / FindFieldByNumber of protobuf: the field
\* descriptor, or nullptr.
nullptr == [name |-> "", number |-> 0, type |-> "", label |-> "", message_type |-> ""]
DescFindFieldByName(name) ==
    IF name \in FieldNames
    THEN Descriptor[CHOOSE i \in 1..Len(Descriptor) : Descriptor[i].name = name]
    ELSE nullptr
DescFindFieldByNumber(number) ==
    IF number \in FieldNumbers
    THEN Descriptor[CHOOSE i \in 1..Len(Descriptor) : Descriptor[i].number = number]
    ELSE nullptr

\* The message and enum types the type manager resolves.
ResolvableTypes ==
    {"NestedMessage", "NestedEnum", "MapStringStringEntry", "ForeignMessage",
     "google.protobuf.Any", "google.protobuf.Duration", "google.protobuf.Timestamp",
     "google.protobuf.Struct", "google.protobuf.Value", "google.protobuf.ListValue",
     "google.protobuf.Int64Value", "google.protobuf.NullValue"}

\* The type a message or enum full name resolves to: the well-known types
\* map to their own kinds, every other message to a struct type, every
\* other enum to an enum type.
ResolvedType(full_name, is_enum) ==
    CASE full_name = "google.protobuf.Any"        -> SimpleType("any")
      [] full_name = "google.protobuf.Duration"   -> SimpleType("duration")
      [] full_name = "google.protobuf.Timestamp"  -> SimpleType("timestamp")
      [] full_name = "google.protobuf.Struct"     -> MapType(SimpleType("string"), SimpleType("dyn"))
      [] full_name = "google.protobuf.Value"      -> SimpleType("dyn")
      [] full_name = "google.protobuf.ListValue"  -> ListType(SimpleType("dyn"))
      [] full_name = "google.protobuf.Int64Value" -> WrapperType(SimpleType("int"))
      [] full_name = "google.protobuf.NullValue"  -> SimpleType("null")
      [] is_enum                                  -> EnumType(full_name)
      [] OTHER                                    -> StructType(full_name)

\* The names the type manager resolves to a type that is not the protocol
\* buffer implementation (a type provider registered another struct type
\* under the name).
NotProtoTypes == {"ForeignMessage"}

\* The enum names of the schema, and the names for which a type provider
\* of the type manager returns an error.
EnumNames == {"NestedEnum", "google.protobuf.NullValue"}
ResolveFailures == {"FailingMessage"}

\* The absent optional<Handle<Type>>.
NoType == SimpleType("")

\* TypeManager::ResolveType: the error of a type provider, no type, or the
\* type registered under the name.
TypeManagerResolveType(full_name) ==
    IF full_name \in ResolveFailures
    THEN Err(InternalError("type provider failed"))
    ELSE IF full_name \notin ResolvableTypes
    THEN Ok(NoType)
    ELSE Ok(ResolvedType(full_name, full_name \in EnumNames))

\* (*type)->Is<ProtoStructType>().
IsProtoStructType(type) == type.kind = "struct" /\ type.name \notin NotProtoTypes

\* ProtoStructType::Resolve: the error of the type manager is returned; a
\* missing type is "not found"; every type that is not a ProtoStructType is
\* "failed precondition".
ProtoStructTypeResolve(full_name) ==
    LET type == TypeManagerResolveType(full_name)
    IN  IF ~type.ok THEN type
        ELSE IF type.val = NoType
        THEN Err(NotFoundError("Missing protocol buffer message type implementation"))
        ELSE IF ~IsProtoStructType(type.val)
        THEN Err(FailedPreconditionError("Unexpected protocol buffer message type implementation"))
        ELSE Ok(type.val)

\* The messages with a type of their own kind.
WellKnownTypes ==
    {"google.protobuf.Any", "google.protobuf.Duration", "google.protobuf.Timestamp",
     "google.protobuf.Struct", "google.protobuf.Value", "google.protobuf.ListValue",
     "google.protobuf.Int64Value"}

\* ProtoType::Resolve of a message or enum descriptor: a well-known message
\* gives the type of its kind, every other message is resolved as a struct
\* type; an enum gives the type the type manager holds for it.
ProtoTypeResolve(full_name, is_enum) ==
    IF is_enum
    THEN LET type == TypeManagerResolveType(full_name)
         IN  IF ~type.ok THEN type
             ELSE IF type.val = NoType
             THEN Err(NotFoundError("Missing protocol buffer enum type implementation"))
             ELSE Ok(type.val)
    ELSE IF full_name \in WellKnownTypes
    THEN Ok(ResolvedType(full_name, FALSE))
    ELSE ProtoStructTypeResolve(full_name)

\* UnwrapType: a wrapper type gives its wrapped primitive, any other type
\* itself.
UnwrapType(type) == IF type.kind = "wrapper" THEN type.wrapped ELSE type

FieldDescriptorToTypeSingular(field_desc) ==
    CASE field_desc.type \in {"TYPE_DOUBLE", "TYPE_FLOAT"} -> Ok(SimpleType("double"))
      [] field_desc.type \in {"TYPE_INT64", "TYPE_INT32", "TYPE_SFIXED32",
                              "TYPE_SFIXED64", "TYPE_SINT32", "TYPE_SINT64"}
                                                      -> Ok(SimpleType("int"))
      [] field_desc.type \in {"TYPE_UINT64", "TYPE_FIXED64", "TYPE_FIXED32",
                              "TYPE_UINT32"}          -> Ok(SimpleType("uint"))
      [] field_desc.type = "TYPE_BOOL"                -> Ok(SimpleType("bool"))
      [] field_desc.type = "TYPE_STRING"              -> Ok(SimpleType("string"))
      [] field_desc.type \in {"TYPE_GROUP", "TYPE_MESSAGE"}
                                                      -> ProtoTypeResolve(field_desc.message_type, FALSE)
      [] field_desc.type = "TYPE_BYTES"               -> Ok(SimpleType("bytes"))
      [] field_desc.type = "TYPE_ENUM"                -> ProtoTypeResolve(field_desc.message_type, TRUE)

\* A faulty variant of FieldDescriptorToTypeRepeated, kept to show that the
\* properties tell it apart: the element type is not unwrapped.
FieldDescriptorToTypeRepeatedWrapped(field_desc) ==
    LET type == FieldDescriptorToTypeSingular(field_desc)
    IN  IF ~type.ok THEN type ELSE Ok(ListType(type.val))

FieldDescriptorToTypeRepeated(field_desc) ==
    LET type == FieldDescriptorToTypeSingular(field_desc)
    IN  IF ~type.ok THEN type ELSE Ok(ListType(UnwrapType(type.val)))

FieldDescriptorToType(field_desc) ==
    IF is_map(field_desc)
    THEN LET key_type == FieldDescriptorToTypeSingular(map_key(field_desc))
             value_type == FieldDescriptorToTypeSingular(map_value(field_desc))
         IN  IF ~key_type.ok THEN key_type
             ELSE IF ~value_type.ok THEN value_type
             ELSE Ok(MapType(key_type.val, UnwrapType(value_type.val)))
    ELSE IF is_repeated(field_desc)
         THEN FieldDescriptorToTypeRepeated(field_desc)
         ELSE FieldDescriptorToTypeSingular(field_desc)

\* StructType::Field: the field's type and the descriptor it came from.
Field(type, field_desc) == [type |-> type, hint |-> field_desc]
nullopt == [type |-> SimpleType(""), hint |-> nullptr]

\* ProtoStructType::FindFieldByName: StatusOr<optional<Field>>.
FindFieldByName(name) ==
    LET field_desc == DescFindFieldByName(name)
        type == FieldDescriptorToType(field_desc)
    IN  IF field_desc = nullptr THEN Ok(nullopt)
        ELSE IF ~type.ok THEN type
        ELSE Ok(Field(type.val, field_desc))

\* static_cast<int>(number) for a number within the range of int.
IntOf(number) ==
    IF IsNegative(number)
    THEN -((Limb - 1 - number[3]) * Limb + (Limb - 1 - number[4])) - 1
    ELSE number[3] * Limb + number[4]

\* A faulty variant of FindFieldByNumber, kept to show that the properties
\* tell it apart: the range guard is missing, so static_cast<int> keeps the
\* low 32 bits of the number.
FindFieldByNumberTruncating(number) ==
    LET field_desc == DescFindFieldByNumber(IntOf(CastInt32(number)))
        type == FieldDescriptorToType(field_desc)
    IN  IF field_desc = nullptr THEN Ok(nullopt)
        ELSE IF ~type.ok THEN type
        ELSE Ok(Field(type.val, field_desc))

\* ProtoStructType::FindFieldByNumber: a number outside the range of int is
\* treated as not found.
FindFieldByNumber(number) ==
    IF SLess(number, Int32Min) \/ SLess(Int32Max, number)
    THEN Ok(nullopt)
    ELSE LET field_desc == DescFindFieldByNumber(IntOf(number))
             type == FieldDescriptorToType(field_desc)
         IN  IF field_desc = nullptr THEN Ok(nullopt)
             ELSE IF ~type.ok THEN type
             ELSE Ok(Field(type.val, field_desc))

---------------------------------------------------------------------------
(* The message under construction (google::protobuf::Message through its   *)
(* reflection interface): a singular field is unset or holds a value, a    *)
(* repeated field holds a sequence of elements.                            *)

Unset      == [has |-> FALSE]
Stored(v)  == [has |-> TRUE, v |-> v]

\* prototype->New(): every field at its default.
NewMessage ==
    [name \in FieldNames |->
        IF is_repeated(DescFindFieldByName(name)) THEN <<>> ELSE Unset]

SetStored(msg, field_desc, v) == [msg EXCEPT ![field_desc.name] = Stored(v)]
SetElements(msg, field_desc, elems) == [msg EXCEPT ![field_desc.name] = elems]
\* A clear that leaves the field as it is.
ClearFieldKeeps(msg, field_desc) == msg
\* Reflection::ClearField.
ClearField(msg, field_desc) ==
    [msg EXCEPT ![field_desc.name] = IF is_repeated(field_desc) THEN <<>> ELSE Unset]

\* The outcome of a write: the status returned and the message left behind.
Written(st, msg) == [status |-> st, message |-> msg]

---------------------------------------------------------------------------
(* CheckedCast<F, T>::Cast.                                                *)

CheckedCastDoubleFloat(value) ==
    IF ~FloatRoundTrips(value)
    THEN Err(OutOfRangeError("double to float overflow"))
    ELSE Ok(value)

CheckedCastInt64Int32(value) ==
    IF SLess(value, Int32Min) \/ SLess(Int32Max, value)
    THEN Err(OutOfRangeError("int64 to int32_t overflow"))
    ELSE Ok(CastInt32(value))

\* The bound compared against is numeric_limits<int32_t>::max().
CheckedCastUint64Uint32(value) ==
    IF ULess(Int32Max, value)
    THEN Err(OutOfRangeError("uint64 to uint32_t overflow"))
    ELSE Ok(CastUInt32(value))

\* CheckedCast<underlying_type of V, P>: P names the primitive C++ type of
\* the field; CheckedCast<T, T> returns the value.
CheckedCast(P, value) ==
    CASE P = "float"    -> CheckedCastDoubleFloat(value)
      [] P = "int32_t"  -> CheckedCastInt64Int32(value)
      [] P = "uint32_t" -> CheckedCastUint64Uint32(value)
      [] OTHER          -> Ok(value)

---------------------------------------------------------------------------
(* Conversions to the well-known message types (protobuf_internal).        *)

\* The largest duration a google.protobuf.Duration holds, in seconds.
MaxDurationSeconds == Dec(<<315, 576, 0, 0>>)
\* The seconds of the largest google.protobuf.Timestamp,
\* 9999-12-31T23:59:59Z.
MaxTimestampSeconds == Dec(<<253, 402, 300, 799>>)

\* |sec + ns/10^9| <= limit, for a value normalised to 0 <= ns < 10^9.
WithinSeconds(sec, ns, limit) ==
    /\ ~SLess(limit, sec) /\ (sec = limit => ns = 0)
    /\ ~SLess(sec, NegW(limit))

\* AbslDurationToDurationProto / AbslTimeToTimestampProto: the message is
\* filled in, or an out-of-range value is refused as an invalid argument.
AbslDurationToDurationProto(value) ==
    IF WithinSeconds(value.sec, value.ns, MaxDurationSeconds)
    THEN Ok([seconds |-> value.sec, nanos |-> value.ns])
    ELSE Err(InvalidArgumentError("duration out of range"))
AbslTimeToTimestampProto(value) ==
    IF ~SLess(MaxTimestampSeconds, value.sec) /\ ~SLess(value.sec, NegW(Dec(<<62, 135, 596, 800>>)))
    THEN Ok([seconds |-> value.sec, nanos |-> value.ns])
    ELSE Err(InvalidArgumentError("timestamp out of range"))

\* Reflection::MutableMessage: the sub-message of the field, created empty
\* when the field was unset.
MutableMessage(msg, field_desc) ==
    IF msg[field_desc.name].has THEN msg
    ELSE SetStored(msg, field_desc, [seconds |-> W(0), nanos |-> 0])

---------------------------------------------------------------------------
(* ProtoStructValueBuilder: writing one field.  Each operator gives the    *)
(* status returned and the message left behind.                            *)

SetMapField(field, value, msg) ==
    Written(UnimplementedError("map fields"), msg)

\* The loop of SetRepeatedScalarField over the elements still to add; acc
\* is the repeated field as filled so far.
RECURSIVE AddScalarElements(_, _, _, _)
AddScalarElements(V, P, elems, acc) ==
    IF elems = <<>> THEN [status |-> OkStatus, elems |-> acc]
    ELSE LET element == Head(elems)
             casted_element == CheckedCast(P, ValueOf(element))
         IN  IF ~Is(element, V)
             THEN [status |-> TypeConversionError, elems |-> acc]
             ELSE IF ~casted_element.ok
             THEN [status |-> casted_element.status, elems |-> acc]
             ELSE AddScalarElements(V, P, Tail(elems), Append(acc, casted_element.val))

\* SetRepeatedScalarField<T, V, P>: T and V are the kind of the element
\* type and of the element values.
SetRepeatedScalarField(T, V, P, from_list_type, value, field_desc, msg) ==
    IF from_list_type.element.kind # T /\ from_list_type.element.kind # "dyn"
    THEN Written(TypeConversionError, msg)
    ELSE LET added == AddScalarElements(V, P, value.elems, <<>>)
         IN  Written(added.status, SetElements(msg, field_desc, added.elems))

\* SetRepeatedStringField<T, V>: as the scalar one, without a cast.
SetRepeatedStringField(T, V, from_list_type, value, field_desc, msg) ==
    IF from_list_type.element.kind # T /\ from_list_type.element.kind # "dyn"
    THEN Written(TypeConversionError, msg)
    ELSE LET added == AddScalarElements(V, "std::string", value.elems, <<>>)
         IN  Written(added.status, SetElements(msg, field_desc, added.elems))

RECURSIVE AddNullElements(_, _)
AddNullElements(elems, acc) ==
    IF elems = <<>> THEN [status |-> OkStatus, elems |-> acc]
    ELSE IF ~Is(Head(elems), "null")
         THEN [status |-> TypeConversionError, elems |-> acc]
         ELSE AddNullElements(Tail(elems), Append(acc, W(0)))

RECURSIVE AddEnumElements(_, _, _)
AddEnumElements(enum_name, elems, acc) ==
    IF elems = <<>> THEN [status |-> OkStatus, elems |-> acc]
    ELSE LET element == Head(elems)
             raw_value == IF Is(element, "enum") THEN element.number ELSE element.int
         IN  IF ~Is(element, "enum") /\ ~Is(element, "int")
             THEN [status |-> TypeConversionError, elems |-> acc]
             ELSE IF Is(element, "enum") /\ element.name # enum_name
             THEN [status |-> TypeConversionError, elems |-> acc]
             ELSE IF SLess(raw_value, Int32Min) \/ SLess(Int32Max, raw_value)
             THEN [status |-> OutOfRangeError("int64 to int32_t overflow"), elems |-> acc]
             ELSE AddEnumElements(enum_name, Tail(elems), Append(acc, CastInt32(raw_value)))

SetRepeatedEnumField(from_list_type, to_list_type, value, field_desc, msg) ==
    IF to_list_type.element.kind = "null"
    THEN IF from_list_type.element.kind \notin {"null", "dyn"}
         THEN Written(TypeConversionError, msg)
         ELSE LET added == AddNullElements(value.elems, <<>>)
              IN  Written(added.status, SetElements(msg, field_desc, added.elems))
    ELSE IF from_list_type.element.kind \notin {"enum", "int", "dyn"}
         THEN Written(TypeConversionError, msg)
         ELSE LET added == AddEnumElements(field_desc.message_type, value.elems, <<>>)
              IN  Written(added.status, SetElements(msg, field_desc, added.elems))

\* The wrapper callbacks of SetRepeatedWrapperMessageField and of the
\* singular message write: the scratch message filled from the primitive.
WrapValueProto(T, v) ==
    CASE T = "duration"  -> AbslDurationToDurationProto(v)
      [] T = "timestamp" -> AbslTimeToTimestampProto(v)
      [] OTHER           -> Ok([wrapped |-> ValueOf(v)])

RECURSIVE AddWrapperElements(_, _, _)
AddWrapperElements(V, elems, acc) ==
    IF elems = <<>> THEN [status |-> OkStatus, elems |-> acc]
    ELSE LET element == Head(elems)
             scratch == WrapValueProto(V, element)
         IN  IF ~Is(element, V)
             THEN [status |-> TypeConversionError, elems |-> acc]
             ELSE IF ~scratch.ok
             THEN [status |-> scratch.status, elems |-> acc]
             ELSE AddWrapperElements(V, Tail(elems), Append(acc, scratch.val))

SetRepeatedWrapperMessageField(T, V, from_list_type, value, field_desc, msg) ==
    IF from_list_type.element.kind # T /\ from_list_type.element.kind # "dyn"
    THEN Written(TypeConversionError, msg)
    ELSE LET added == AddWrapperElements(V, value.elems, <<>>)
         IN  Written(added.status, SetElements(msg, field_desc, added.elems))

RECURSIVE AddStructElements(_, _)
AddStructElements(elems, acc) ==
    IF elems = <<>> THEN [status |-> OkStatus, elems |-> acc]
    ELSE IF ~Is(Head(elems), "struct")
         THEN [status |-> TypeConversionError, elems |-> acc]
         ELSE AddStructElements(Tail(elems), Append(acc, [name |-> Head(elems).name]))

SetRepeatedMessageField(from_list_type, to_list_type, value, field_desc, msg) ==
    LET kind == to_list_type.element.kind
    IN  CASE kind = "any"  -> Written(UnimplementedError("google.protobuf.Any"), msg)
          [] kind = "dyn"  -> Written(UnimplementedError("google.protobuf.Value"), msg)
          [] kind = "list" -> Written(UnimplementedError("google.protobuf.ListValue"), msg)
          [] kind = "map"  -> Written(UnimplementedError("google.protobuf.Struct"), msg)
          [] kind \in {"duration", "timestamp", "bool", "int", "uint", "double",
                       "bytes", "string"}
                -> SetRepeatedWrapperMessageField(kind, kind, from_list_type, value,
                                                  field_desc, msg)
          [] kind = "struct"
                -> LET added == AddStructElements(value.elems, <<>>)
                   IN  Written(added.status, SetElements(msg, field_desc, added.elems))
          [] OTHER -> Written(TypeConversionError, msg)

SetRepeatedField(field, value, msg) ==
    LET field_desc == field.hint
        to_list_type == field.type
        from_list_type == ListType(value.element)
        type == field_desc.type
    IN  CASE type = "TYPE_DOUBLE"
                -> SetRepeatedScalarField("double", "double", "double", from_list_type,
                                          value, field_desc, msg)
          [] type = "TYPE_FLOAT"
                -> SetRepeatedScalarField("double", "double", "float", from_list_type,
                                          value, field_desc, msg)
          [] type \in {"TYPE_FIXED64", "TYPE_UINT64"}
                -> SetRepeatedScalarField("uint", "uint", "uint64_t", from_list_type,
                                          value, field_desc, msg)
          [] type = "TYPE_BOOL"
                -> SetRepeatedScalarField("bool", "bool", "bool", from_list_type,
                                          value, field_desc, msg)
          [] type = "TYPE_STRING"
                -> SetRepeatedStringField("string", "string", from_list_type, value,
                                          field_desc, msg)
          [] type \in {"TYPE_GROUP", "TYPE_MESSAGE"}
                -> SetRepeatedMessageField(from_list_type, to_list_type, value,
                                           field_desc, msg)
          [] type = "TYPE_BYTES"
                -> SetRepeatedStringField("bytes", "bytes", from_list_type, value,
                                          field_desc, msg)
          [] type \in {"TYPE_FIXED32", "TYPE_UINT32"}
                -> SetRepeatedScalarField("uint", "uint", "uint32_t", from_list_type,
                                          value, field_desc, msg)
          [] type = "TYPE_ENUM"
                -> SetRepeatedEnumField(from_list_type, to_list_type, value,
                                        field_desc, msg)
          [] type \in {"TYPE_SFIXED32", "TYPE_SINT32", "TYPE_INT32"}
                -> SetRepeatedScalarField("int", "int", "int32_t", from_list_type,
                                          value, field_desc, msg)
          [] type \in {"TYPE_SFIXED64", "TYPE_SINT64", "TYPE_INT64"}
                -> SetRepeatedScalarField("int", "int", "int64_t", from_list_type,
                                          value, field_desc, msg)

SetSingularMessageField(field, value, msg) ==
    LET field_desc == field.hint
        kind == field.type.kind
        mismatch == Written(InvalidArgumentError("type conversion error"), msg)
    IN  CASE kind = "any"  -> Written(UnimplementedError("google.protobuf.Any"), msg)
          [] kind = "dyn"  -> Written(UnimplementedError("google.protobuf.Value"), msg)
          [] kind = "list" -> Written(UnimplementedError("google.protobuf.ListValue"), msg)
          [] kind = "map"  -> Written(UnimplementedError("google.protobuf.Struct"), msg)
          [] kind \in {"duration", "timestamp"}
                -> IF ~Is(value, kind) THEN mismatch
                   ELSE LET proto == WrapValueProto(kind, value)
                        IN  IF proto.ok
                            THEN Written(OkStatus, SetStored(msg, field_desc, proto.val))
                            ELSE Written(proto.status, MutableMessage(msg, field_desc))
          [] kind = "wrapper"
                -> IF Is(value, "null")
                   THEN Written(OkStatus, ClearField(msg, field_desc))
                   ELSE IF ~Is(value, field.type.wrapped.kind) THEN mismatch
                   ELSE Written(OkStatus,
                                SetStored(msg, field_desc,
                                          WrapValueProto(field.type.wrapped.kind, value).val))
          [] kind = "struct"
                -> IF ~Is(value, "struct") THEN mismatch
                   ELSE Written(OkStatus, SetStored(msg, field_desc, [name |-> value.name]))
          [] OTHER -> mismatch

SetSingularField(field, value, msg) ==
    LET field_desc == field.hint
        type == field_desc.type
        mismatch == Written(InvalidArgumentError("type conversion error"), msg)
    IN  CASE type = "TYPE_DOUBLE"
                -> IF ~Is(value, "double") THEN mismatch
                   ELSE Written(OkStatus, SetStored(msg, field_desc, ValueOf(value)))
          [] type = "TYPE_FLOAT"
                -> IF ~Is(value, "double") THEN mismatch
                   ELSE IF ~FloatRoundTrips(ValueOf(value))
                   THEN Written(InvalidArgumentError("double to float overflow"), msg)
                   ELSE Written(OkStatus, SetStored(msg, field_desc, ValueOf(value)))
          [] type \in {"TYPE_FIXED64", "TYPE_UINT64"}
                -> IF ~Is(value, "uint") THEN mismatch
                   ELSE Written(OkStatus, SetStored(msg, field_desc, ValueOf(value)))
          [] type = "TYPE_BOOL"
                -> IF ~Is(value, "bool") THEN mismatch
                   ELSE Written(OkStatus, SetStored(msg, field_desc, ValueOf(value)))
          [] type = "TYPE_STRING"
                -> IF ~Is(value, "string") THEN mismatch
                   ELSE Written(OkStatus, SetStored(msg, field_desc, ValueOf(value)))
          [] type \in {"TYPE_GROUP", "TYPE_MESSAGE"}
                -> SetSingularMessageField(field, value, msg)
          [] type = "TYPE_BYTES"
                -> IF ~Is(value, "bytes") THEN mismatch
                   ELSE Written(OkStatus, SetStored(msg, field_desc, ValueOf(value)))
          [] type \in {"TYPE_FIXED32", "TYPE_UINT32"}
                -> IF ~Is(value, "uint") THEN mismatch
                   ELSE IF ULess(UInt32Max, ValueOf(value))
                   THEN Written(InvalidArgumentError("uint64 to uint32_t overflow"), msg)
                   ELSE Written(OkStatus, SetStored(msg, field_desc, CastUInt32(ValueOf(value))))
          [] type = "TYPE_ENUM"
                -> IF Is(value, "null")
                   THEN Written(OkStatus, ClearField(msg, field_desc))
                   ELSE IF ~Is(value, "int") /\ ~Is(value, "enum") THEN mismatch
                   ELSE LET raw_value == IF Is(value, "int") THEN value.int
                                         ELSE value.number
                        IN  IF SLess(raw_value, Int32Min) \/ SLess(Int32Max, raw_value)
                            THEN Written(InvalidArgumentError("int64 to int32_t overflow"), msg)
                            ELSE Written(OkStatus,
                                         SetStored(msg, field_desc, CastInt32(raw_value)))
          [] type \in {"TYPE_SFIXED32", "TYPE_SINT32", "TYPE_INT32"}
                -> IF ~Is(value, "int") THEN mismatch
                   ELSE IF SLess(ValueOf(value), Int32Min) \/ SLess(Int32Max, ValueOf(value))
                   THEN Written(InvalidArgumentError("int64 to int32_t overflow"), msg)
                   ELSE Written(OkStatus, SetStored(msg, field_desc, CastInt32(ValueOf(value))))
          [] type \in {"TYPE_SFIXED64", "TYPE_SINT64", "TYPE_INT64"}
                -> IF ~Is(value, "int") THEN mismatch
                   ELSE Written(OkStatus, SetStored(msg, field_desc, ValueOf(value)))

SetField(field, value, msg) ==
    IF is_map(field.hint) THEN SetMapField(field, value, msg)
    ELSE IF is_repeated(field.hint)
         THEN IF ~Is(value, "list") THEN Written(TypeConversionError, msg)
              ELSE SetRepeatedField(field, value, msg)
         ELSE SetSingularField(field, value, msg)

\* The member functions a call on a found field goes through.
WritePath(field, value) ==
    <<"SetField">> \o
    (IF is_map(field.hint) THEN <<"SetMapField">>
     ELSE IF is_repeated(field.hint)
          THEN (IF Is(value, "list") THEN <<"SetRepeatedField">> ELSE <<>>)
          ELSE <<"SetSingularField">>)

---------------------------------------------------------------------------
(* The values and the field names and numbers the builder is called with.  *)

IntInputs ==
    {W(1), Int32Min, SubW(Int32Min, W(1)), Int32Max, AddW(Int32Max, W(1)),
     AddW(Pow2(32), W(1))}
UintInputs ==
    {W(1), Int32Max, AddW(Int32Max, W(1)), UInt32Max, AddW(UInt32Max, W(1))}
DoubleInputs == {Fin(FALSE, W(1), 0), Fin(FALSE, AddW(Pow2(24), W(1)), 0), Nan}

ListInputs ==
    {ListValue(SimpleType("int"), <<>>),
     ListValue(SimpleType("int"), <<IntValue(Int32Max), IntValue(Int32Min)>>),
     ListValue(SimpleType("int"), <<IntValue(W(1)), IntValue(AddW(Int32Max, W(1)))>>),
     ListValue(SimpleType("int"), <<IntValue(SubW(Int32Min, W(1)))>>),
     ListValue(SimpleType("dyn"), <<IntValue(W(1)), StringValue(<<97>>)>>),
     ListValue(SimpleType("dyn"), <<IntValue(AddW(Pow2(32), W(1))), StringValue(<<97>>)>>),
     ListValue(SimpleType("dyn"), <<StringValue(<<97>>), IntValue(W(1))>>),
     ListValue(SimpleType("string"), <<StringValue(<<97>>), StringValue(<<98>>)>>),
     ListValue(SimpleType("uint"), <<UintValue(Int32Max)>>),
     ListValue(SimpleType("uint"), <<UintValue(W(1)), UintValue(UInt32Max)>>),
     ListValue(SimpleType("uint"), <<UintValue(AddW(UInt32Max, W(1)))>>),
     ListValue(EnumType("NestedEnum"), <<EnumValue("NestedEnum", W(1))>>),
     ListValue(StructType("NestedMessage"), <<StructValue("NestedMessage")>>)}

ValueInputs ==
    {IntValue(w) : w \in IntInputs} \cup {UintValue(w) : w \in UintInputs}
    \cup {DoubleValue(d) : d \in DoubleInputs}
    \cup {NullValue, BoolValue(TRUE), StringValue(<<97>>), BytesValue(<<97>>),
          DurationValue(MaxDurationSeconds, 0),
          DurationValue(AddW(MaxDurationSeconds, W(1)), 0),
          TimestampValue(MaxTimestampSeconds, 0),
          EnumValue("NestedEnum", W(1)),
          EnumValue("OtherEnum", AddW(Int32Max, W(1))),
          StructValue("NestedMessage"),
          MapValue(<<>>)}
    \cup ListInputs

NameInputs == FieldNames \cup {"undefined_field"}

NumberInputs ==
    {W(1), W(31), W(0), NegW(W(1)),
     AddW(Int32Max, W(1)), SubW(Int32Min, W(1)),
     AddW(Pow2(32), W(1)), AddW(Pow2(32), W(31))}

---------------------------------------------------------------------------
(* The specification of one builder: a fresh message, then up to MaxCalls  *)
(* calls of SetFieldByName and SetFieldByNumber.                           *)

NoCall == [by |-> "none", name |-> "", number |-> W(0), value |-> NullValue,
           before |-> NewMessage]

BuilderInit ==
    /\ message = NewMessage
    /\ status = OkStatus
    /\ path = <<>>
    /\ lastCall = NoCall
    /\ ncalls = 0

\* SpecValue's variables while no operation is applied.
Pending == [kind |-> "pending"]
ValueIdle ==
    /\ op = [name |-> "none", state |-> "idle", build |-> "release",
              self |-> NullValue, other |-> NullValue]
    /\ result = Pending

FactoryIdle ==
    /\ pc = <<>>
    /\ call = <<>>
    /\ holder = <<>>
    /\ cache = <<>>
    /\ nextImpl = 0
    /\ returned = {}
    /\ ncreate = <<>>

\* The variables of the singleton, the server and the evaluator frame in
\* the specifications that do not use them.
SingletonIdle ==
    /\ instance_once = "kOnceInit"
    /\ instance_storage = <<>>
    /\ getter = <<>>

ServerIdle == server = <<>>

FrameIdle == frame = <<>>
MoveIdle == values = <<>>
IteratorIdle == iterator = <<>>
LegacyIdle == legacy = <<>>
\* The subsystems modelled last, untouched.
RestIdle == MoveIdle /\ IteratorIdle /\ LegacyIdle

Init == BuilderInit /\ ValueIdle /\ FactoryIdle /\ SingletonIdle /\ ServerIdle /\ FrameIdle /\ RestIdle

\* What a call does once the field lookup has answered: the lookup's error,
\* "no such field", or the write.
Dispatch(field_type, field_id, value, msg) ==
    IF ~field_type.ok THEN Written(field_type.status, msg)
    ELSE IF field_type.val = nullopt
    THEN Written(CreateNoSuchFieldError(field_id), msg)
    ELSE SetField(field_type.val, value, msg)

DispatchPath(field_type, value) ==
    IF field_type.ok /\ field_type.val # nullopt
    THEN WritePath(field_type.val, value)
    ELSE <<>>

SetFieldByName(name, value) ==
    /\ ncalls < MaxCalls
    /\ LET field_type == FindFieldByName(name)
           written == Dispatch(field_type, name, value, message)
       IN  /\ message' = written.message
           /\ status' = written.status
           /\ path' = <<"FindFieldByName">> \o DispatchPath(field_type, value)
    /\ lastCall' = [by |-> "name", name |-> name, number |-> W(0), value |-> value,
                    before |-> message]
    /\ ncalls' = ncalls + 1
    /\ UNCHANGED <<op, result, pc, call, holder, cache, nextImpl, returned, ncreate>>
    /\ UNCHANGED <<singletonVars, serverVars, frameVars, moveVars, iteratorVars, legacyVars>>

SetFieldByNumber(number, value) ==
    /\ ncalls < MaxCalls
    /\ LET field_type == FindFieldByNumber(number)
           written == Dispatch(field_type, number, value, message)
       IN  /\ message' = written.message
           /\ status' = written.status
           /\ path' = <<"FindFieldByNumber">> \o DispatchPath(field_type, value)
    /\ lastCall' = [by |-> "number", name |-> "", number |-> number, value |-> value,
                    before |-> message]
    /\ ncalls' = ncalls + 1
    /\ UNCHANGED <<op, result, pc, call, holder, cache, nextImpl, returned, ncreate>>
    /\ UNCHANGED <<singletonVars, serverVars, frameVars, moveVars, iteratorVars, legacyVars>>

Next ==
    \/ \E name \in NameInputs, value \in ValueInputs : SetFieldByName(name, value)
    \/ \E number \in NumberInputs, value \in ValueInputs : SetFieldByNumber(number, value)

Spec == Init /\ [][Next]_vars

---------------------------------------------------------------------------
(* Properties of the struct builder.                                       *)

\* The field the last call named, when it named one of the schema.
CalledField ==
    IF lastCall.by = "name" THEN DescFindFieldByName(lastCall.name)
    ELSE IF lastCall.by = "number"
            /\ \E n \in FieldNumbers : lastCall.number = W(n)
         THEN DescFindFieldByNumber(CHOOSE n \in FieldNumbers : lastCall.number = W(n))
         ELSE nullptr

IsInt32Field(field_desc) ==
    field_desc.type \in {"TYPE_INT32", "TYPE_SINT32", "TYPE_SFIXED32"}
InInt32Range(w) == ~SLess(w, Int32Min) /\ ~SLess(Int32Max, w)

\* The last call wrote an int to a singular int32 field, or a list of ints
\* to a repeated one.
Int32WriteSingular ==
    /\ IsInt32Field(CalledField) /\ ~is_repeated(CalledField)
    /\ Is(lastCall.value, "int")
Int32WriteRepeated ==
    /\ IsInt32Field(CalledField) /\ is_repeated(CalledField)
    /\ Is(lastCall.value, "list")
    /\ lastCall.value.element.kind = "int"
    /\ \A i \in 1..Len(lastCall.value.elems) : Is(lastCall.value.elems[i], "int")

\* C1: an int written to an int32, sint32 or sfixed32 field is stored
\* unchanged when it lies in [-2^31, 2^31-1] and is refused with "out of
\* range" when it does not, for a singular field and for the elements of a
\* repeated one.
C1_Int32WriteOutOfRange ==
    /\ Int32WriteSingular =>
          IF InInt32Range(lastCall.value.int)
          THEN status = OkStatus
               /\ message[CalledField.name] = Stored(lastCall.value.int)
          ELSE status.code = "out_of_range"
    /\ Int32WriteRepeated =>
          IF \A i \in 1..Len(lastCall.value.elems) : InInt32Range(lastCall.value.elems[i].int)
          THEN status = OkStatus
               /\ message[CalledField.name] =
                      [i \in 1..Len(lastCall.value.elems) |-> lastCall.value.elems[i].int]
          ELSE status.code = "out_of_range"

\* C1, the case that fails: 2^31 written to a singular int32 field was
\* refused, but as an invalid argument.
C1_SingularOverflowRefused ==
    /\ Int32WriteSingular
    /\ lastCall.value.int = AddW(Int32Max, W(1))
    /\ status = InvalidArgumentError("int64 to int32_t overflow")

\* The declared type of the field the last call named (a field whose type
\* the type manager resolves).
CalledResolvable == CalledField # nullptr /\ FieldDescriptorToType(CalledField).ok
CalledType == FieldDescriptorToType(CalledField).val

\* A list of element type from may be written where a list of element type
\* to is declared: the same kind, dyn, or int for an enum.
ElementTypeCompatible(to, from) ==
    \/ from.kind \in {to.kind, "dyn"}
    \/ to.kind = "enum" /\ from.kind = "int"

\* The kinds of value a type takes, conversions included: the type's own
\* kind; null and the wrapped primitive for a wrapper; an int for an enum;
\* anything for dyn and any.
RECURSIVE KindCompatible(_, _)
KindCompatible(type, value) ==
    CASE type.kind \in {"dyn", "any"} -> TRUE
      [] type.kind = "wrapper" -> Is(value, "null") \/ Is(value, type.wrapped.kind)
      [] type.kind = "enum"    -> Is(value, "enum") \/ Is(value, "int")
      [] type.kind = "list"    ->
            /\ Is(value, "list")
            /\ ElementTypeCompatible(type.element, value.element)
            /\ \A i \in 1..Len(value.elems) : KindCompatible(type.element, value.elems[i])
      [] OTHER -> Is(value, type.kind)

\* C2: every write of a value whose kind is incompatible with the field's
\* declared type (an int written to a duration, string or bool field, a
\* value that is no list or a list of another element type written to a
\* repeated field) fails with "invalid argument".
C2_IncompatibleIsInvalidArgument ==
    (CalledResolvable /\ ~KindCompatible(CalledType, lastCall.value))
        => status.code = "invalid_argument"

\* C2, its case: the repeated message field held an element, and the empty
\* list of int written to it was accepted and left the field empty.
C2_MistypedListAccepted ==
    /\ ncalls = 2
    /\ CalledResolvable
    /\ CalledField.name = "repeated_nested_message"
    /\ lastCall.value = ListValue(SimpleType("int"), <<>>)
    /\ ~KindCompatible(CalledType, lastCall.value)
    /\ lastCall.before["repeated_nested_message"] # <<>>
    /\ status = OkStatus
    /\ message["repeated_nested_message"] = <<>>

\* C3: a call naming no field of the struct type (a name that is not a
\* field name, a number that is not a field number, the numbers outside
\* the range of int included) fails with "no such field" and goes through
\* none of the field-writing functions.
C3_UnknownFieldIsNoSuchField ==
    (lastCall.by # "none" /\ CalledField = nullptr)
        => /\ status = CreateNoSuchFieldError(lastCall.name)
           /\ path \in {<<"FindFieldByName">>, <<"FindFieldByNumber">>}

\* C3, its case: a number outside the range of int whose low 32 bits are
\* the number of a field, given after a first successful write.
C3_NumberOutsideIntRefused ==
    /\ ncalls = 2
    /\ lastCall.by = "number"
    /\ lastCall.number = AddW(Pow2(32), W(1))
    /\ status = CreateNoSuchFieldError(lastCall.name)
    /\ \E name \in FieldNames : message[name] # NewMessage[name]

\* C12: the type derived for a repeated field is list<E>, and for a map
\* field map<K, V>, where E and V are never wrapper types: where the
\* field's element or value type is a wrapper, E or V is the primitive it
\* wraps, and otherwise the element or value type itself.
C12_ListAndMapTypesUnwrapped ==
    (CalledField # nullptr /\ is_repeated(CalledField) /\ FieldDescriptorToType(CalledField).ok)
        => LET type == FieldDescriptorToType(CalledField).val
               of == FieldDescriptorToTypeSingular(
                        IF is_map(CalledField) THEN map_value(CalledField) ELSE CalledField).val
               inner == IF is_map(CalledField) THEN type.value ELSE type.element
           IN  /\ type.kind = (IF is_map(CalledField) THEN "map" ELSE "list")
               /\ inner.kind # "wrapper"
               /\ inner = (IF of.kind = "wrapper" THEN of.wrapped ELSE of)
               /\ is_map(CalledField) =>
                     type.key = FieldDescriptorToTypeSingular(map_key(CalledField)).val

\* C12, its cases: the first call wrote a list of ints to the repeated
\* field of wrapper messages, whose derived type is list<int>, and the
\* second named the map field with wrapper values, whose derived type is
\* map<string, int>.
C12_WrapperFieldsCalled ==
    /\ ncalls = 2
    /\ message.repeated_int64_wrapper # <<>>
    /\ FieldDescriptorToType(DescFindFieldByName("repeated_int64_wrapper"))
          = Ok(ListType(SimpleType("int")))
    /\ CalledField.name = "map_string_int64_wrapper"
    /\ FieldDescriptorToType(CalledField) = Ok(MapType(SimpleType("string"), SimpleType("int")))

\* The codes an error may carry.
ErrorCodes ==
    {"invalid_argument", "not_found", "out_of_range", "unimplemented", "internal",
     "unavailable"}

---------------------------------------------------------------------------
(* Construction of values: CelValue::CreateDuration and the ValueFactory.  *)

\* operator< of absl::Duration: whole seconds, then the nanoseconds, which
\* are never negative.
DurationLess(a, b) ==
    SLess(a.sec, b.sec) \/ (a.sec = b.sec /\ a.ns < b.ns)

\* An absl::Duration: whole seconds and 0 <= ns < 10^9 nanoseconds more.
AbslDuration(sec, ns) == [sec |-> sec, ns |-> ns]
\* absl::Seconds(n).
Seconds(n) == AbslDuration(n, 0)

\* Exclusive bounds for valid duration values.
kDurationHigh == Seconds(Dec(<<315, 576, 0, 1>>))
kDurationLow  == Seconds(NegW(Dec(<<315, 576, 0, 1>>)))
DurationOverflowError == InvalidArgumentError("Duration is out of range")

\* CelValue::CreateDuration: a CelValue holding the duration, or the error.
CelValueCreateDuration(value) ==
    IF ~DurationLess(value, kDurationHigh) \/ ~DurationLess(kDurationLow, value)
    THEN ErrorValue(DurationOverflowError)
    ELSE DurationValue(value.sec, value.ns)

\* ValueFactory::CreateDurationValue and CreateUncheckedDurationValue.
CreateDurationValue(value) == DurationValue(value.sec, value.ns)
CreateUncheckedDurationValue(value) == DurationValue(value.sec, value.ns)

\* ValueFactory::CreateStringValue and CreateUncheckedStringValue.
CreateStringValue(value) == StringValue(value)
CreateUncheckedStringValue(value) == StringValue(value)

\* UTF-8 validation: every code point is encoded in its shortest form, is
\* no surrogate and is at most U+10FFFF.
IsCont(b) == b \in 128..191
RECURSIVE Utf8IsValid(_)
Utf8IsValid(s) ==
    IF s = <<>> THEN TRUE
    ELSE LET b == s[1]
             n == Len(s)
             rest(k) == SubSeq(s, k + 1, n)
         IN  CASE b < 128 -> Utf8IsValid(rest(1))
               [] b \in 194..223 ->
                     n >= 2 /\ IsCont(s[2]) /\ Utf8IsValid(rest(2))
               [] b \in 224..239 ->
                     /\ n >= 3
                     /\ s[2] \in (IF b = 224 THEN 160..191
                                  ELSE IF b = 237 THEN 128..159 ELSE 128..191)
                     /\ IsCont(s[3])
                     /\ Utf8IsValid(rest(3))
               [] b \in 240..244 ->
                     /\ n >= 4
                     /\ s[2] \in (IF b = 240 THEN 144..191
                                  ELSE IF b = 244 THEN 128..143 ELSE 128..191)
                     /\ IsCont(s[3]) /\ IsCont(s[4])
                     /\ Utf8IsValid(rest(4))
               [] OTHER -> FALSE

\* The length of the well-formed encoding of a code point at the head of
\* s, or 0 when none begins there.
RuneLen(s) ==
    LET b == s[1]
        n == Len(s)
    IN  CASE b < 128 -> 1
          [] b \in 194..223 -> IF n >= 2 /\ IsCont(s[2]) THEN 2 ELSE 0
          [] b \in 224..239 ->
                IF /\ n >= 3
                   /\ s[2] \in (IF b = 224 THEN 160..191
                                ELSE IF b = 237 THEN 128..159 ELSE 128..191)
                   /\ IsCont(s[3])
                THEN 3 ELSE 0
          [] b \in 240..244 ->
                IF /\ n >= 4
                   /\ s[2] \in (IF b = 240 THEN 144..191
                                ELSE IF b = 244 THEN 128..143 ELSE 128..191)
                   /\ IsCont(s[3]) /\ IsCont(s[4])
                THEN 4 ELSE 0
          [] OTHER -> 0

\* internal::Utf8CodePointCount: the number of code points, a byte that
\* begins no well-formed encoding counting as one.
RECURSIVE Utf8CodePointCount(_)
Utf8CodePointCount(s) ==
    IF s = <<>> THEN 0
    ELSE 1 + Utf8CodePointCount(
                SubSeq(s, (IF RuneLen(s) = 0 THEN 1 ELSE RuneLen(s)) + 1, Len(s)))

\* A string value holding an absl::Cord: the chunks of the cord.
CordStringValue(chunks) == [kind |-> "string", cord |-> chunks]

\* The bytes of a cord, chunk after chunk.
RECURSIVE Flatten(_)
Flatten(chunks) ==
    IF chunks = <<>> THEN <<>> ELSE chunks[1] \o Flatten(Tail(chunks))

\* The bytes of a string value, flat or cord.
NativeString(value) ==
    IF "cord" \in DOMAIN value THEN Flatten(value.cord) ELSE value.string

\* A faulty variant of StringValue::Size, kept to show that the properties
\* tell it apart: the number of bytes.
StringValueSizeInBytes(self) == Len(NativeString(self))

\* StringValue::Size: the code point count of whichever alternative the
\* value holds.
StringValueSize(self) ==
    IF "cord" \in DOMAIN self
    THEN Utf8CodePointCount(Flatten(self.cord))
    ELSE Utf8CodePointCount(self.string)

\* StringValueView::Size.
StringValueViewSize(self) ==
    IF "cord" \in DOMAIN self
    THEN Utf8CodePointCount(Flatten(self.cord))
    ELSE Utf8CodePointCount(self.string)

---------------------------------------------------------------------------
(* Equality of values.                                                     *)

\* DoubleValue::Equals: the same kind and the same double.
DoubleValueEquals(self, other) ==
    self.kind = other.kind /\ DoubleEq(self.double, other.double)

\* A faulty variant of StringValue::Equal, kept to show that the properties
\* tell it apart: a value of another kind is refused with an error.
StringValueEqualStrict(self, other) ==
    IF Is(other, "string")
    THEN Ok(BoolValue(self.string = other.string))
    ELSE Err(InvalidArgumentError("type conversion error"))

\* StringValue::Equal and StringValueView::Equal: against a string, whether
\* the bytes are the same; against anything else, false.
StringValueEqual(self, other) ==
    IF Is(other, "string")
    THEN Ok(BoolValue(self.string = other.string))
    ELSE Ok(BoolValue(FALSE))

\* MapValueEqual: two maps are equal when they hold the same entries.
MapValueEqual(lhs, rhs) ==
    Ok(BoolValue({lhs.entries[i] : i \in 1..Len(lhs.entries)}
                 = {rhs.entries[i] : i \in 1..Len(rhs.entries)}))

\* LegacyMapValue::Equal: against a map, MapValueEqual; against anything
\* else, false.
LegacyMapValueEqual(self, other) ==
    IF Is(other, "map") THEN MapValueEqual(self, other)
    ELSE Ok(BoolValue(FALSE))

\* A Value whose variant holds absl::monostate (moved from).
InvalidValue == [kind |-> "monostate"]

\* The builds: ABSL_DCHECK is compiled out of a release build and aborts the
\* process in a debug build.
Builds == {"release", "debug"}
\* IsValid and AssertIsValid: the assertion fails only in a debug build.
IsValid(variant) == ~Is(variant, "monostate")
AssertionFails(build, variant) == build = "debug" /\ ~IsValid(variant)

\* Value::Equal: the Equal of the alternative the variant holds.
ValueEqual(self, other) ==
    CASE Is(self, "monostate") -> Err(InternalError("use of invalid Value"))
      [] Is(self, "string")    -> StringValueEqual(self, other)
      [] Is(self, "map")       -> LegacyMapValueEqual(self, other)

---------------------------------------------------------------------------
(* Writing a CelValue to a singular field of a message (field_access).     *)

\* CelValue::CreateTimestamp: a CelValue holding the time as given.
CelValueCreateTimestamp(value) == TimestampValue(value.sec, value.ns)

\* MakeGoogleApiDurationMax and MakeGoogleApiTimeMax.
MakeGoogleApiDurationMax == Seconds(MaxDurationSeconds)
MakeGoogleApiTimeMax == Seconds(MaxTimestampSeconds)

\* The write that tests the kind of the value and not its range.
SetValueToSingleFieldAnyRange(value, field_desc) ==
    CASE field_desc.message_type = "google.protobuf.Duration" ->
            IF Is(value, "duration") THEN OkStatus
            ELSE InvalidArgumentError("type conversion error")
      [] field_desc.message_type = "google.protobuf.Timestamp" ->
            IF Is(value, "timestamp") THEN OkStatus
            ELSE InvalidArgumentError("type conversion error")

\* SetValueToSingleField on a Duration or Timestamp field: a value of
\* another kind (the error CelValue::CreateDuration gives included) is
\* refused, a value of the right kind is encoded into the well-known
\* message, which refuses what is out of its range.
SetValueToSingleField(value, field_desc) ==
    CASE field_desc.message_type = "google.protobuf.Duration" ->
            IF ~Is(value, "duration")
            THEN InvalidArgumentError("type conversion error")
            ELSE LET encoded == AbslDurationToDurationProto(value)
                 IN  IF encoded.ok THEN OkStatus ELSE encoded.status
      [] field_desc.message_type = "google.protobuf.Timestamp" ->
            IF ~Is(value, "timestamp")
            THEN InvalidArgumentError("type conversion error")
            ELSE LET encoded == AbslTimeToTimestampProto(value)
                 IN  IF encoded.ok THEN OkStatus ELSE encoded.status

---------------------------------------------------------------------------
(* SpecValue: one operation of value construction or equality is called    *)
(* with arguments drawn from the sets below, and returns.                  *)

DurationInputs ==
    {AbslDuration(sec, ns) :
        sec \in {W(0), Dec(<<315, 575, 999, 999>>), Dec(<<315, 576, 0, 0>>),
                 Dec(<<315, 576, 0, 1>>), NegW(Dec(<<315, 576, 0, 0>>)),
                 NegW(Dec(<<315, 576, 0, 1>>)), NegW(Dec(<<315, 576, 0, 2>>))},
        ns \in {0, 1, 999999999}}

\* Byte sequences: empty, "a", U+0416, U+4E16, U+10FFFF; then a bad lead
\* byte, U+110000, two lead bytes beyond F4, an overlong NUL, the
\* surrogates U+D800 and U+DFFF, a lone continuation and a truncated
\* sequence.
StringInputs ==
    {<<>>, <<97>>, <<208, 150>>, <<228, 184, 150>>, <<244, 143, 191, 191>>,
     <<66, 250>>, <<244, 144, 128, 128>>, <<247, 191, 191, 191>>,
     <<251, 191, 191, 191, 191>>, <<192, 128>>, <<237, 160, 128>>,
     <<237, 191, 191>>, <<128>>, <<228, 184>>}

EqDoubleInputs ==
    {Fin(FALSE, W(0), 0), Fin(TRUE, W(0), 0), Fin(FALSE, W(1), 0),
     Fin(TRUE, W(1), 0), Fin(FALSE, W(1), 1), Fin(FALSE, Pow2(53), 0),
     Fin(FALSE, Pow2(63), 0), Nan, Inf(FALSE), Inf(TRUE)}
EqIntInputs  == {W(0), W(1), NegW(W(1)), Pow2(53), SubW(Pow2(63), W(1))}
EqUintInputs == {W(0), W(1), Pow2(53), Pow2(63), NegW(W(1))}
EqMapInputs ==
    {MapValue(<<>>),
     MapValue(<<<<StringValue(<<97>>), IntValue(W(1))>>>>),
     MapValue(<<<<StringValue(<<97>>), IntValue(W(1))>>,
                <<StringValue(<<98>>), IntValue(W(0))>>>>),
     MapValue(<<<<StringValue(<<98>>), IntValue(W(0))>>,
                <<StringValue(<<97>>), IntValue(W(1))>>>>)}

EqInputs ==
    {DoubleValue(d) : d \in EqDoubleInputs}
    \cup {IntValue(w) : w \in EqIntInputs}
    \cup {UintValue(w) : w \in EqUintInputs}
    \cup {StringValue(b) : b \in {<<>>, <<97>>, <<98>>}}
    \cup EqMapInputs
    \cup {NullValue, BoolValue(FALSE), BoolValue(TRUE), BytesValue(<<97>>),
          DurationValue(W(1), 0), TimestampValue(W(1), 0),
          ListValue(SimpleType("dyn"), <<>>), StructValue("NestedMessage"),
          ErrorValue(InternalError("failure")),
          ErrorValue(NotFoundError("no_such_field")),
          UnknownValue(<<"var">>)}

\* The strings whose size is asked: flat strings, among them "abcd" and
\* three three-byte code points, and cords, among them cords that split a
\* code point between two chunks.
SizeInputs ==
    {StringValue(b) : b \in StringInputs}
    \cup {StringValue(<<97, 98, 99, 100>>),
          StringValue(<<226, 152, 186, 226, 152, 187, 226, 152, 185>>),
          StringValue(<<226, 0>>), StringValue(<<97, 226, 128>>),
          CordStringValue(<<>>),
          CordStringValue(<<<<97, 98>>, <<99, 100>>>>),
          CordStringValue(<<<<226, 152>>, <<186, 97>>>>),
          CordStringValue(<<<<240>>, <<159, 152>>, <<128>>>>),
          CordStringValue(<<<<208, 150>>, <<208, 150>>>>),
          CordStringValue(<<<<226>>, <<128>>>>)}

\* Times around the largest and the smallest timestamp.
TimeInputs ==
    {AbslDuration(sec, ns) :
        sec \in {W(0), SubW(MaxTimestampSeconds, W(1)), MaxTimestampSeconds,
                 AddW(MaxTimestampSeconds, W(1)), NegW(Dec(<<62, 135, 596, 800>>)),
                 NegW(Dec(<<62, 135, 596, 801>>))},
        ns \in {0, 999999999}}

\* The values of the field writes: what CelValue::CreateDuration and
\* CelValue::CreateTimestamp give, and an int.
CelValueInputs ==
    {CelValueCreateDuration(d) : d \in DurationInputs}
    \cup {CelValueCreateTimestamp(t) : t \in TimeInputs}
    \cup {IntValue(W(1))}

Called(name, self, other) ==
    [name |-> name, state |-> "called", build |-> "release", self |-> self, other |-> other]

\* The calls, each with its arguments.
CallInputs ==
    {Called(name, NullValue, d) :
        name \in {"CelValue::CreateDuration", "ValueFactory::CreateDurationValue",
                  "ValueFactory::CreateUncheckedDurationValue"},
        d \in DurationInputs}
    \cup {Called(name, NullValue, BytesValue(b)) :
        name \in {"ValueFactory::CreateStringValue",
                  "ValueFactory::CreateUncheckedStringValue"},
        b \in StringInputs}
    \cup {Called("DoubleValue::Equals", self, other) :
        self \in {v \in EqInputs : Is(v, "double")}, other \in EqInputs}
    \cup {Called("StringValue::Equal", self, other) :
        self \in {v \in EqInputs : Is(v, "string")}, other \in EqInputs}
    \cup {Called("LegacyMapValue::Equal", self, other) :
        self \in EqMapInputs, other \in EqInputs}
    \cup {Called("Value::Equal", self, other) :
        self \in {InvalidValue, StringValue(<<97>>), MapValue(<<>>)}, other \in EqInputs}
    \cup {Called(name, self, NullValue) :
        name \in {"StringValue::Size", "StringValueView::Size"}, self \in SizeInputs}
    \cup {Called("SetValueToSingleField", DescFindFieldByName(field), value) :
        field \in {"single_duration", "single_timestamp"}, value \in CelValueInputs}

\* The calls in each of the builds.
ValueCalls == {[c EXCEPT !.build = build] : c \in CallInputs, build \in Builds}

InitValue ==
    /\ BuilderInit
    /\ FactoryIdle
    /\ SingletonIdle /\ ServerIdle /\ FrameIdle /\ RestIdle
    /\ op \in ValueCalls
    /\ result = Pending

\* The call op names returns what apply gives.
Return(name, value) ==
    /\ op.state = "called"
    /\ op.name = name
    /\ op' = [op EXCEPT !.state = "returned"]
    /\ result' = value
    /\ UNCHANGED <<message, status, path, lastCall, ncalls,
                   pc, call, holder, cache, nextImpl, returned, ncreate>>
    /\ UNCHANGED <<singletonVars, serverVars, frameVars, moveVars, iteratorVars, legacyVars>>

\* The call op names ends the process in an assertion.
Abort(name) ==
    /\ op.state = "called"
    /\ op.name = name
    /\ op' = [op EXCEPT !.state = "aborted"]
    /\ UNCHANGED <<message, status, path, lastCall, ncalls, result,
                   pc, call, holder, cache, nextImpl, returned, ncreate>>
    /\ UNCHANGED <<singletonVars, serverVars, frameVars, moveVars, iteratorVars, legacyVars>>

CreateDuration ==
    Return("CelValue::CreateDuration", CelValueCreateDuration(op.other))
FactoryCreateDurationValue ==
    Return("ValueFactory::CreateDurationValue", CreateDurationValue(op.other))
FactoryCreateUncheckedDurationValue ==
    Return("ValueFactory::CreateUncheckedDurationValue",
           CreateUncheckedDurationValue(op.other))
FactoryCreateStringValue ==
    Return("ValueFactory::CreateStringValue", CreateStringValue(op.other.bytes))
FactoryCreateUncheckedStringValue ==
    Return("ValueFactory::CreateUncheckedStringValue",
           CreateUncheckedStringValue(op.other.bytes))
Equals ==
    Return("DoubleValue::Equals", DoubleValueEquals(op.self, op.other))
StringEqual ==
    Return("StringValue::Equal", StringValueEqual(op.self, op.other))
LegacyMapEqual ==
    Return("LegacyMapValue::Equal", LegacyMapValueEqual(op.self, op.other))
\* Value::Equal: AssertIsValid comes first, and in a debug build ends the
\* process when the Value is invalid; nothing is returned then.
Equal ==
    /\ op.name = "Value::Equal"
    /\ IF AssertionFails(op.build, op.self)
       THEN Abort("Value::Equal")
       ELSE Return("Value::Equal", ValueEqual(op.self, op.other))

StringSize ==
    Return("StringValue::Size", StringValueSize(op.self))
StringViewSize ==
    Return("StringValueView::Size", StringValueViewSize(op.self))

SetValueToSingle ==
    Return("SetValueToSingleField", SetValueToSingleField(op.other, op.self))

NextValue ==
    \/ CreateDuration
    \/ FactoryCreateDurationValue
    \/ FactoryCreateUncheckedDurationValue
    \/ FactoryCreateStringValue
    \/ FactoryCreateUncheckedStringValue
    \/ Equals
    \/ StringEqual
    \/ LegacyMapEqual
    \/ Equal
    \/ StringSize
    \/ StringViewSize
    \/ SetValueToSingle

SpecValue == InitValue /\ [][NextValue]_vars

---------------------------------------------------------------------------
(* Properties of value construction and equality.                          *)

Returned(name) == op.state = "returned" /\ op.name = name

\* The bounds of a duration, both inclusive: 315,576,000,000 seconds.
DurationBound == Seconds(Dec(<<315, 576, 0, 0>>))
WithinDurationBound(d) ==
    /\ ~DurationLess(DurationBound, d)
    /\ ~DurationLess(d, Seconds(NegW(DurationBound.sec)))

\* C4: duration construction accepts every duration within the bounds, the
\* bounds included, and rejects every duration a nanosecond or more beyond
\* them with "out of range".
C4_DurationBoundsChecked ==
    (Returned("CelValue::CreateDuration") \/ Returned("ValueFactory::CreateDurationValue"))
        => IF WithinDurationBound(op.other)
           THEN result = DurationValue(op.other.sec, op.other.ns)
           ELSE Is(result, "error") /\ result.status.code = "out_of_range"

\* C4, the case that fails: one nanosecond beyond the upper bound is
\* accepted by CelValue::CreateDuration.
C4_BeyondBoundAccepted ==
    /\ Returned("CelValue::CreateDuration")
    /\ op.other = AbslDuration(DurationBound.sec, 1)
    /\ result = DurationValue(DurationBound.sec, 1)

\* C5: the checked string constructor gives a string value for the byte
\* sequences that are valid UTF-8 and an error for all others.
C5_CheckedStringValidated ==
    Returned("ValueFactory::CreateStringValue")
        => IF Utf8IsValid(op.other.bytes)
           THEN result = StringValue(op.other.bytes)
           ELSE Is(result, "error")

\* C5, the case that fails: an overlong encoding comes back as a string
\* value.
C5_InvalidUtf8Accepted ==
    /\ Returned("ValueFactory::CreateStringValue")
    /\ op.other.bytes = <<192, 128>>
    /\ ~Utf8IsValid(op.other.bytes)
    /\ result = StringValue(<<192, 128>>)

\* The mathematical value of an int, a uint or a finite double: sign,
\* magnitude, and whether a half is added; zero has no sign.
IsNumeric(v) == v.kind \in {"int", "uint", "double"}
IsNan(v) == Is(v, "double") /\ v.double.cls = "nan"
HasMathValue(v) == IsNumeric(v) /\ (Is(v, "double") => v.double.cls = "fin")
MathValue(v) ==
    CASE Is(v, "int")  -> [neg |-> IsNegative(v.int),
                           mag |-> IF IsNegative(v.int) THEN NegW(v.int) ELSE v.int,
                           half |-> 0]
      [] Is(v, "uint") -> [neg |-> FALSE, mag |-> v.uint, half |-> 0]
      [] Is(v, "double") -> [neg |-> v.double.neg /\ ~IsZero(v.double),
                             mag |-> v.double.mag, half |-> v.double.half]
MathEqual(a, b) ==
    \/ HasMathValue(a) /\ HasMathValue(b) /\ MathValue(a) = MathValue(b)
    \/ /\ Is(a, "double") /\ Is(b, "double")
       /\ a.double.cls = "inf" /\ b.double.cls = "inf" /\ a.double.neg = b.double.neg

\* C6: two values of numeric kinds with the same mathematical value are
\* equal, whichever of the kinds int, uint and double each has.
C6_NumericEqualAcrossKinds ==
    (Returned("DoubleValue::Equals") /\ IsNumeric(op.other) /\ MathEqual(op.self, op.other))
        => result = TRUE

\* C6, the case that fails: the double 1.0 is unequal to the int 1.
C6_DoubleUnequalToSameInt ==
    /\ Returned("DoubleValue::Equals")
    /\ op.self = DoubleValue(Fin(FALSE, W(1), 0))
    /\ op.other = IntValue(W(1))
    /\ result = FALSE

EqualCalls == {"StringValue::Equal", "LegacyMapValue::Equal", "Value::Equal"}
ReturnedEqual ==
    op.state = "returned" /\ op.name \in EqualCalls /\ ~Is(op.self, "monostate")

\* C7: a comparison in which either operand is a double holding NaN gives
\* false, the comparison of a NaN with itself included.
C7_NanUnequalToEverything ==
    /\ (Returned("DoubleValue::Equals") /\ (IsNan(op.self) \/ IsNan(op.other)))
          => result = FALSE
    /\ (ReturnedEqual /\ IsNan(op.other))
          => result = Ok(BoolValue(FALSE))

\* C7, its case: NaN compared with NaN.
C7_NanUnequalToItself ==
    /\ Returned("DoubleValue::Equals")
    /\ IsNan(op.self) /\ op.other = op.self
    /\ result = FALSE

\* C8: comparing a string or a map with a value of another kind gives the
\* boolean false, with an OK status.
C8_OtherKindIsFalse ==
    (ReturnedEqual /\ op.other.kind # op.self.kind)
        => result = Ok(BoolValue(FALSE))

\* C8, its cases: a string compared with a map, and a map with a string.
C8_StringAndMapCompared ==
    /\ ReturnedEqual
    /\ {op.self.kind, op.other.kind} = {"string", "map"}
    /\ result = Ok(BoolValue(FALSE))

\* C9: Equal given an error or an unknown value as the other operand
\* returns that value.
C9_ErrorOperandReturned ==
    (ReturnedEqual /\ op.other.kind \in {"error", "unknown"})
        => result = Ok(op.other)

\* C9, the case that fails: a string compared with an error value gives
\* the boolean false.
C9_ErrorOperandGivesFalse ==
    /\ Returned("StringValue::Equal")
    /\ Is(op.other, "error")
    /\ result = Ok(BoolValue(FALSE))

\* The number of code points of well-formed UTF-8: the bytes that are not
\* continuation bytes.
CodePoints(bytes) == Cardinality({i \in 1..Len(bytes) : ~IsCont(bytes[i])})

\* C17: the size of a string value, and of a view of it, is the number of
\* code points of its UTF-8 bytes, whether it holds a flat string or a
\* cord.
C17_SizeCountsCodePoints ==
    ((Returned("StringValue::Size") \/ Returned("StringValueView::Size"))
        /\ Utf8IsValid(NativeString(op.self)))
        => result = CodePoints(NativeString(op.self))

\* C17, its case: a cord of four bytes that splits a three-byte code point
\* between its chunks has size 2.
C17_SplitCordCounted ==
    /\ Returned("StringValue::Size")
    /\ op.self = CordStringValue(<<<<226, 152>>, <<186, 97>>>>)
    /\ result = 2

---------------------------------------------------------------------------
(* TypeFactory: the caches of list, map and optional types, each guarded   *)
(* by its own mutex, and threads calling CreateListType, CreateMapType and *)
(* CreateOptionalType.                                                     *)

\* A Handle<T>: the object it points to (impl_) and, to tell two handle
\* objects apart, the place of the handle itself.
Handle(impl, at) == [impl |-> impl, at |-> at]

\* A faulty variant of Handle::operator==, kept to show that the properties
\* tell it apart: two handles are equal only when they are the same object.
HandleEqSameObject(a, b) == a = b

\* Handle<T>::operator==.
HandleEq(a, b) == a.impl = b.impl

Threads == 1..MaxThreads
Caches  == {"list_types_", "map_types_", "optional_types_"}

\* The keys the threads ask for: the handles at 1 and 2 point to the same
\* type, the handle at 3 to another.  A list or optional key is one handle,
\* a map key the pair of key and value type.
KeyInputs(c) ==
    IF c = "map_types_"
    THEN {<<Handle(1, 1), Handle(2, 3)>>, <<Handle(1, 2), Handle(2, 3)>>}
    ELSE {<<Handle(1, 1)>>, <<Handle(1, 2)>>, <<Handle(2, 3)>>}

\* Equality of two keys of a cache: Handle::operator== on each component.
KeyEq(a, b) ==
    Len(a) = Len(b) /\ \A i \in 1..Len(a) : HandleEq(a[i], b[i])

NoHandle == Handle(0, 0)

InitTypeFactory ==
    /\ BuilderInit
    /\ ValueIdle
    /\ SingletonIdle /\ ServerIdle /\ FrameIdle /\ RestIdle
    /\ pc = [t \in Threads |-> "idle"]
    /\ call = [t \in Threads |-> [cache |-> "list_types_", key |-> <<>>, type |-> NoHandle]]
    /\ holder = [c \in Caches |-> 0]
    /\ cache = [c \in Caches |-> {}]
    /\ nextImpl = 10
    /\ returned = {}
    /\ ncreate = [t \in Threads |-> 0]

\* A thread calls CreateListType, CreateMapType or CreateOptionalType.
CreateType(t, c, key) ==
    /\ pc[t] = "idle"
    /\ ncreate[t] < MaxCreates
    /\ pc' = [pc EXCEPT ![t] = "lock"]
    /\ call' = [call EXCEPT ![t] = [cache |-> c, key |-> key, type |-> NoHandle]]
    /\ ncreate' = [ncreate EXCEPT ![t] = @ + 1]
    /\ UNCHANGED <<holder, cache, nextImpl, returned>>
    /\ UNCHANGED <<message, status, path, lastCall, ncalls, op, result>>
    /\ UNCHANGED <<singletonVars, serverVars, frameVars, moveVars, iteratorVars, legacyVars>>

\* The call acquires the mutex of its cache.
Lock(t) ==
    /\ pc[t] = "lock"
    /\ holder[call[t].cache] = 0
    /\ holder' = [holder EXCEPT ![call[t].cache] = t]
    /\ pc' = [pc EXCEPT ![t] = "find"]
    /\ UNCHANGED <<call, cache, nextImpl, returned, ncreate>>
    /\ UNCHANGED <<message, status, path, lastCall, ncalls, op, result>>
    /\ UNCHANGED <<singletonVars, serverVars, frameVars, moveVars, iteratorVars, legacyVars>>

\* The entries of a cache under a key.
Lookup(c, key) == {e \in cache[c] : KeyEq(e.key, key)}

\* The call looks its key up: a type found is the one returned.
Find(t) ==
    /\ pc[t] = "find"
    /\ LET found == Lookup(call[t].cache, call[t].key)
       IN  IF found # {}
           THEN /\ call' = [call EXCEPT ![t].type = (CHOOSE e \in found : TRUE).type]
                /\ pc' = [pc EXCEPT ![t] = "unlock"]
           ELSE /\ call' = call
                /\ pc' = [pc EXCEPT ![t] = "create"]
    /\ UNCHANGED <<holder, cache, nextImpl, returned, ncreate>>
    /\ UNCHANGED <<message, status, path, lastCall, ncalls, op, result>>
    /\ UNCHANGED <<singletonVars, serverVars, frameVars, moveVars, iteratorVars, legacyVars>>

\* HandleFactory<T>::Make: a handle to the memory the memory manager gave,
\* the empty handle when it gave none (nullptr, here 0).
Make(managed_memory) ==
    IF managed_memory = 0 THEN NoHandle ELSE Handle(managed_memory, 0)

\* No type found: the call allocates one and adds it to the cache; when the
\* allocation fails nothing is added and the call returns no handle.
Create(t) ==
    /\ pc[t] = "create"
    /\ \E managed_memory \in {nextImpl, 0} :
          /\ call' = [call EXCEPT ![t].type = Make(managed_memory)]
          /\ IF managed_memory = 0
             THEN UNCHANGED <<nextImpl, cache>>
             ELSE /\ nextImpl' = nextImpl + 1
                  /\ cache' = [cache EXCEPT ![call[t].cache] =
                                  @ \cup {[key |-> call[t].key, type |-> Make(managed_memory)]}]
    /\ pc' = [pc EXCEPT ![t] = "unlock"]
    /\ UNCHANGED <<holder, returned, ncreate>>
    /\ UNCHANGED <<message, status, path, lastCall, ncalls, op, result>>
    /\ UNCHANGED <<singletonVars, serverVars, frameVars, moveVars, iteratorVars, legacyVars>>

\* The call releases the mutex and returns its type.
Unlock(t) ==
    /\ pc[t] = "unlock"
    /\ holder' = [holder EXCEPT ![call[t].cache] = 0]
    /\ returned' = returned \cup {call[t]}
    /\ pc' = [pc EXCEPT ![t] = "idle"]
    /\ UNCHANGED <<call, cache, nextImpl, ncreate>>
    /\ UNCHANGED <<message, status, path, lastCall, ncalls, op, result>>
    /\ UNCHANGED <<singletonVars, serverVars, frameVars, moveVars, iteratorVars, legacyVars>>

NextTypeFactory ==
    \/ \E t \in Threads, c \in Caches : \E key \in KeyInputs(c) : CreateType(t, c, key)
    \/ \E t \in Threads : Lock(t)
    \/ \E t \in Threads : Find(t)
    \/ \E t \in Threads : Create(t)
    \/ \E t \in Threads : Unlock(t)

SpecTypeFactory == InitTypeFactory /\ [][NextTypeFactory]_vars

\* Two keys, or two types, are the same by handle identity.
SameKey(a, b) == Len(a) = Len(b) /\ \A i \in 1..Len(a) : a[i].impl = b[i].impl

\* C10: whatever the interleaving, two calls on one cache with equal
\* arguments that return a handle return the same handle, no cache holds
\* two types under one key, and a thread reads or writes a cache only
\* while it holds the cache's mutex.
C10_TypesInterned ==
    /\ \A r1, r2 \in returned :
          (/\ r1.cache = r2.cache /\ SameKey(r1.key, r2.key)
           /\ r1.type # NoHandle /\ r2.type # NoHandle) => r1.type.impl = r2.type.impl
    /\ \A c \in Caches : \A e1, e2 \in cache[c] :
          SameKey(e1.key, e2.key) => e1 = e2
    /\ \A t \in Threads :
          pc[t] \in {"find", "create", "unlock"} => holder[call[t].cache] = t

\* C10, its case: two threads have asked one cache for equal keys through
\* different handles, and both calls have returned.
C10_EqualKeysFromTwoThreads ==
    \E r1, r2 \in returned :
        /\ r1.cache = r2.cache
        /\ r1.key # r2.key /\ SameKey(r1.key, r2.key)
        /\ r1.type = r2.type /\ r1.type # NoHandle
        /\ \A t \in Threads : ncreate[t] >= 1 /\ pc[t] = "idle"

---------------------------------------------------------------------------
(* UintType::Get: the singleton handle, constructed in static storage      *)
(* under absl::call_once, and threads calling Get.                         *)

\* The static storage before construction (zero-initialised chars) and
\* after MakeAt has constructed the handle in it; constructions counts the
\* placement-new calls made on it.
ZeroStorage == [value |-> "zero", constructions |-> 0]

\* HandleFactory<UintType>::MakeAt<UintType>(address): placement new of the
\* handle at the address.
MakeAt(storage) == [value |-> "Handle<UintType>", constructions |-> storage.constructions + 1]

\* A faulty variant of the entry test of call_once, kept to show that the
\* properties tell it apart: a caller runs the function whenever the flag
\* is not yet done, also while another caller runs it.
CallOnceEntersUnlessDone(flag) == flag # "kOnceDone"

\* absl::call_once: the caller that finds the flag untouched runs the
\* function.
CallOnceEnters(flag) == flag = "kOnceInit"

Getters == 1..MaxGetters

InitSingleton ==
    /\ BuilderInit /\ ValueIdle /\ FactoryIdle /\ ServerIdle /\ FrameIdle /\ RestIdle
    /\ instance_once = "kOnceInit"
    /\ instance_storage = ZeroStorage
    /\ getter = [t \in Getters |-> [at |-> "idle", got |-> ZeroStorage, calls |-> 0]]

\* A thread calls UintType::Get.
Get(t) ==
    /\ getter[t].at = "idle"
    /\ getter[t].calls < MaxGets
    /\ getter' = [getter EXCEPT ![t].at = "call_once", ![t].calls = @ + 1]
    /\ UNCHANGED <<instance_once, instance_storage>>
    /\ UNCHANGED <<builderVars, valueVars, factoryVars, serverVars, frameVars, moveVars, iteratorVars, legacyVars>>

\* call_once, the flag is done: the caller goes on without running the
\* function.
CallOnceDone(t) ==
    /\ getter[t].at = "call_once"
    /\ instance_once = "kOnceDone"
    /\ getter' = [getter EXCEPT ![t].at = "return"]
    /\ UNCHANGED <<instance_once, instance_storage>>
    /\ UNCHANGED <<builderVars, valueVars, factoryVars, serverVars, frameVars, moveVars, iteratorVars, legacyVars>>

\* call_once, the caller is the one to run the function; a caller that
\* finds another running it waits here until the flag is done.
CallOnceEnter(t) ==
    /\ getter[t].at = "call_once"
    /\ CallOnceEnters(instance_once)
    /\ instance_once' = "kOnceRunning"
    /\ getter' = [getter EXCEPT ![t].at = "fn"]
    /\ UNCHANGED instance_storage
    /\ UNCHANGED <<builderVars, valueVars, factoryVars, serverVars, frameVars, moveVars, iteratorVars, legacyVars>>

\* The function given to call_once: MakeAt on the storage.
CallOnceFn(t) ==
    /\ getter[t].at = "fn"
    /\ instance_storage' = MakeAt(instance_storage)
    /\ getter' = [getter EXCEPT ![t].at = "fn_done"]
    /\ UNCHANGED instance_once
    /\ UNCHANGED <<builderVars, valueVars, factoryVars, serverVars, frameVars, moveVars, iteratorVars, legacyVars>>

\* call_once after the function: the flag is set done, which lets the
\* waiting callers go on.
CallOnceExit(t) ==
    /\ getter[t].at = "fn_done"
    /\ instance_once' = "kOnceDone"
    /\ getter' = [getter EXCEPT ![t].at = "return"]
    /\ UNCHANGED instance_storage
    /\ UNCHANGED <<builderVars, valueVars, factoryVars, serverVars, frameVars, moveVars, iteratorVars, legacyVars>>

\* Get returns the reference to the storage; got is what the caller sees
\* through it.
GetReturn(t) ==
    /\ getter[t].at = "return"
    /\ getter' = [getter EXCEPT ![t].at = "idle", ![t].got = instance_storage]
    /\ UNCHANGED <<instance_once, instance_storage>>
    /\ UNCHANGED <<builderVars, valueVars, factoryVars, serverVars, frameVars, moveVars, iteratorVars, legacyVars>>

NextSingleton ==
    \/ \E t \in Getters : Get(t)
    \/ \E t \in Getters : CallOnceDone(t)
    \/ \E t \in Getters : CallOnceEnter(t)
    \/ \E t \in Getters : CallOnceFn(t)
    \/ \E t \in Getters : CallOnceExit(t)
    \/ \E t \in Getters : GetReturn(t)

SpecSingleton == InitSingleton /\ [][NextSingleton]_vars

HasReturned(t) == getter[t].calls > 1 \/ (getter[t].calls = 1 /\ getter[t].at = "idle")

\* C11: the singleton handle is constructed at most once; a call of Get
\* returns only after that one construction has completed; every call
\* returns the same handle; and once constructed the handle is not
\* modified.
C11_SingletonConstructedOnce ==
    /\ [](/\ instance_storage.constructions <= 1
          /\ \A t \in Getters :
                (getter[t].at = "return" \/ HasReturned(t))
                    => /\ instance_once = "kOnceDone"
                       /\ instance_storage = MakeAt(ZeroStorage)
          /\ \A t \in Getters :
                HasReturned(t) => getter[t].got = MakeAt(ZeroStorage))
    /\ [][instance_storage.constructions >= 1 => instance_storage' = instance_storage]_vars

\* C11, its case: all threads have called Get twice and returned, one of
\* them having constructed the handle.
C11_AllThreadsReturned ==
    /\ \A t \in Getters : getter[t].calls = MaxGets /\ getter[t].at = "idle"
    /\ \A t, u \in Getters : getter[t].got = getter[u].got
    /\ instance_storage.constructions = 1

---------------------------------------------------------------------------
(* The conformance server: the pipe codec (base64 over the protobuf wire   *)
(* format), the service operations and the command loop of RunServer.      *)

\* The element of a set of one element: the value of an expression, named
\* where it is used more than once.
The(S) == CHOOSE x \in S : TRUE

\* A line of base64 text is a sequence of symbols: 0..63 the digits of the
\* alphabet, Pad the character '=', Dot the character '.', Space a
\* whitespace character, NotBase64 any other character.
Sextet == 2^6
Pad == Sextet
Dot == Sextet + 1
Space == Sextet + 2
NotBase64 == Sextet + 3

\* absl::Base64Escape: three bytes give four digits, a last group of one or
\* two bytes is padded.
RECURSIVE Base64Escape(_)
Base64Escape(data) ==
    IF Len(data) = 0 THEN <<>>
    ELSE IF Len(data) = 1
    THEN <<data[1] \div 4, (data[1] % 4) * 16, Pad, Pad>>
    ELSE IF Len(data) = 2
    THEN <<data[1] \div 4, (data[1] % 4) * 16 + data[2] \div 16, (data[2] % 16) * 4, Pad>>
    ELSE <<data[1] \div 4, (data[1] % 4) * 16 + data[2] \div 16,
           (data[2] % 16) * 4 + data[3] \div 64, data[3] % 64>>
         \o Base64Escape(SubSeq(data, 4, Len(data)))

\* The number of digits a line starts with.
DigitCount(line) ==
    Cardinality({i \in 1..Len(line) : \A j \in 1..i : line[j] < Sextet})

\* The bytes of a sequence of digits, four digits giving three bytes; the
\* low bits of a last group of two or three digits are dropped.
RECURSIVE Base64Bytes(_)
Base64Bytes(digits) ==
    IF Len(digits) < 2 THEN <<>>
    ELSE IF Len(digits) = 2
    THEN <<digits[1] * 4 + digits[2] \div 16>>
    ELSE IF Len(digits) = 3
    THEN <<digits[1] * 4 + digits[2] \div 16, (digits[2] % 16) * 16 + digits[3] \div 4>>
    ELSE <<digits[1] * 4 + digits[2] \div 16, (digits[2] % 16) * 16 + digits[3] \div 4,
           (digits[3] % 4) * 64 + digits[4]>>
         \o Base64Bytes(SubSeq(digits, 5, Len(digits)))

\* absl::Base64Unescape: whitespace is skipped; the digits end at the first
\* pad character ('=' or '.'), after which only pad characters may follow;
\* a last group of one digit is refused; the pad characters are none, or as
\* many as the last group of digits lacks (two after two digits, one after
\* three).
Base64Unescape(line) ==
    The({The({IF \/ \E i \in (Len(digits) + 1)..Len(text) : text[i] \notin {Pad, Dot}
                 \/ Len(digits) % 4 = 1
                 \/ /\ Len(text) - Len(digits) # 0
                    /\ Len(text) - Len(digits) # (CASE Len(digits) % 4 = 2 -> 2
                                                    [] Len(digits) % 4 = 3 -> 1
                                                    [] OTHER -> 0)
              THEN [ok |-> FALSE, bytes |-> <<>>]
              ELSE [ok |-> TRUE, bytes |-> Base64Bytes(digits)]
              : digits \in {SubSeq(text, 1, DigitCount(text))}})
         : text \in {SelectSeq(line, LAMBDA c : c # Space)}})

\* A varint is held as its groups of seven bits, the low group first and
\* no high group zero: no group for 0.
RECURSIVE Groups(_)
Groups(n) == IF n = 0 THEN <<>> ELSE <<n % 128>> \o Groups(n \div 128)
RECURSIVE Canonical(_)
Canonical(groups) ==
    IF groups # <<>> /\ groups[Len(groups)] = 0
    THEN Canonical(SubSeq(groups, 1, Len(groups) - 1))
    ELSE groups

\* A field on the wire: its number, its wire type and either a varint (wire
\* type 0) or the bytes of a length-delimited payload (wire type 2), of a
\* fixed64 (1), of a fixed32 (5) or of a group with its end tag (3).
Varint(num, n)   == [num |-> num, wt |-> 0, varint |-> Groups(n), payload |-> <<>>]
Payload(num, bs) == [num |-> num, wt |-> 2, varint |-> <<>>, payload |-> bs]
Unknown(num, wt, groups, bs) == [num |-> num, wt |-> wt, varint |-> groups, payload |-> bs]

\* The bytes of a varint: every byte but the last has the high bit set.
WriteVarint(groups) ==
    IF groups = <<>> THEN <<0>>
    ELSE [i \in 1..Len(groups) |-> IF i < Len(groups) THEN groups[i] + 128 ELSE groups[i]]
WriteTag(num, wt) == WriteVarint(Canonical(<<(num % 16) * 8 + wt>> \o Groups(num \div 16)))

\* Message::SerializeAsString: for every field the tag, then the varint,
\* the length and the payload, the fixed bytes, or the bytes of the group.
RECURSIVE SerializeAsString(_)
SerializeAsString(msg) ==
    IF msg = <<>> THEN <<>>
    ELSE LET f == msg[1]
         IN  WriteTag(f.num, f.wt)
             \o (CASE f.wt = 0 -> WriteVarint(f.varint)
                   [] f.wt = 2 -> WriteVarint(Groups(Len(f.payload))) \o f.payload
                   [] OTHER    -> f.payload)
             \o SerializeAsString(Tail(msg))

\* The longest varints read: a 64-bit value, a tag, a length.
kMaxVarintBytes == 10
kMaxVarint32Bytes == 5

\* The group at a position, 0 beyond the last; the data after its first n
\* bytes.
GroupAt(groups, i) == IF i <= Len(groups) THEN groups[i] ELSE 0
Drop(data, n) == SubSeq(data, n + 1, Len(data))

\* The groups of the varint the data starts with, as they are read: up to
\* the first byte without the high bit; none when there is no such byte
\* among the first max.
RawGroups(data, max) ==
    The({IF len < max /\ len < Len(data) THEN [i \in 1..(len + 1) |-> data[i] % 128] ELSE <<>>
         : len \in {Cardinality({i \in 1..Len(data) : \A j \in 1..i : data[j] >= 128})}})

\* The 64-bit varint the data starts with; of a tenth byte one bit counts.
ReadVarint(data) ==
    The({[ok |-> groups # <<>>, len |-> Len(groups),
          groups |-> Canonical([i \in 1..Len(groups) |->
                        IF i = kMaxVarintBytes THEN groups[i] % 2 ELSE groups[i]])]
         : groups \in {RawGroups(data, kMaxVarintBytes)}})

\* The tag the data starts with: a varint of at most five bytes, of which
\* 32 bits count; the low three bits are the wire type.
ReadTag(data) ==
    The({[ok |-> groups # <<>>, len |-> Len(groups),
          wt |-> GroupAt(groups, 1) % 8,
          num |-> GroupAt(groups, 1) \div 8 + GroupAt(groups, 2) * 2^4
                  + GroupAt(groups, 3) * 2^11 + GroupAt(groups, 4) * 2^18
                  + (GroupAt(groups, 5) % 16) * 2^25]
         : groups \in {RawGroups(data, kMaxVarint32Bytes)}})

\* The length the data starts with: a varint of at most five bytes.  A
\* length of more than three groups is beyond every data here.
ReadSize(data) ==
    The({[ok |-> groups # <<>> /\ GroupAt(groups, 4) = 0 /\ GroupAt(groups, 5) = 0,
          len |-> Len(groups),
          size |-> GroupAt(groups, 1) + GroupAt(groups, 2) * 2^7 + GroupAt(groups, 3) * 2^14]
         : groups \in {RawGroups(data, kMaxVarint32Bytes)}})

\* The number of bytes of the value after a tag of wire type 0, 1, 2 or
\* 5; -1 when the data ends inside the value.
ValueLen(wt, body) ==
    CASE wt = 0 -> The({IF v.ok THEN v.len ELSE -1 : v \in {ReadVarint(body)}})
      [] wt = 1 -> IF Len(body) < 8 THEN -1 ELSE 8
      [] wt = 2 -> The({IF ~size.ok \/ Len(body) < size.len + size.size THEN -1
                        ELSE size.len + size.size
                        : size \in {ReadSize(body)}})
      [] wt = 5 -> IF Len(body) < 4 THEN -1 ELSE 4
      [] OTHER  -> -1

\* The number of bytes up to the end of the groups that are open (their
\* field numbers, the innermost first), n bytes being read already; -1
\* when the data ends inside a group or a field, or holds a tag of field
\* number 0, of wire type 6 or 7, or an end tag of another group.
RECURSIVE GroupSpan(_, _, _)
GroupSpan(data, open, n) ==
    IF open = <<>> THEN n
    ELSE IF data = <<>> THEN -1
    ELSE The({The({IF \/ ~tag.ok \/ tag.num = 0 \/ len < 0
                      \/ (tag.wt = 4 /\ tag.num # Head(open))
                   THEN -1
                   ELSE GroupSpan(Drop(data, tag.len + len),
                                  IF tag.wt = 3 THEN <<tag.num>> \o open
                                  ELSE IF tag.wt = 4 THEN Tail(open)
                                  ELSE open,
                                  n + tag.len + len)
                   : len \in {IF tag.wt \in {3, 4} THEN 0
                              ELSE ValueLen(tag.wt, Drop(data, tag.len))}})
              : tag \in {ReadTag(data)}})

\* The field the data starts with and the number of bytes it takes; false
\* when the data ends inside the field, or starts with a tag of field
\* number 0, of wire type 6 or 7, or with an end tag.  A field whose wire
\* type is not that of a field of the message is kept as an unknown field.
ReadField(data) ==
    The({The({IF ~tag.ok \/ tag.num = 0 \/ len < 0
              THEN [ok |-> FALSE, len |-> 0, field |-> Unknown(0, 0, <<>>, <<>>)]
              ELSE [ok |-> TRUE, len |-> tag.len + len,
                    field |->
                       CASE tag.wt = 0 ->
                              Unknown(tag.num, 0, ReadVarint(Drop(data, tag.len)).groups, <<>>)
                         [] tag.wt = 2 ->
                              Payload(tag.num,
                                      SubSeq(data, tag.len + ReadSize(Drop(data, tag.len)).len + 1,
                                             tag.len + len))
                         [] OTHER ->
                              Unknown(tag.num, tag.wt, <<>>,
                                      SubSeq(data, tag.len + 1, tag.len + len))]
              : len \in {IF tag.wt = 3 THEN GroupSpan(Drop(data, tag.len), <<tag.num>>, 0)
                         ELSE ValueLen(tag.wt, Drop(data, tag.len))}})
         : tag \in {ReadTag(data)}})

\* The fields of the data, up to the first that cannot be read.
RECURSIVE ParseFields(_)
ParseFields(data) ==
    IF data = <<>> THEN [ok |-> TRUE, proto |-> <<>>]
    ELSE The({IF ~read.ok THEN [ok |-> FALSE, proto |-> <<>>]
              ELSE The({[ok |-> rest.ok, proto |-> <<read.field>> \o rest.proto]
                        : rest \in {ParseFields(Drop(data, read.len))}})
              : read \in {ReadField(data)}})

\* The message types of the conformance protocol and of the expressions and
\* values it carries.  A row names a message type, a field number, the kind
\* of the field and, for a message field, its type; a map field is the
\* repeated field of its entry messages.
Schema ==
    { <<"ParseRequest", 1, "string", "">>, <<"ParseRequest", 2, "string", "">>,
      <<"ParseRequest", 3, "string", "">>, <<"ParseRequest", 4, "varint", "">>,
      <<"EvalRequest", 1, "message", "ParsedExpr">>,
      <<"EvalRequest", 2, "message", "CheckedExpr">>,
      <<"EvalRequest", 3, "message", "EvalRequest.BindingsEntry">>,
      <<"EvalRequest", 4, "string", "">>,
      <<"EvalRequest.BindingsEntry", 1, "string", "">>,
      <<"EvalRequest.BindingsEntry", 2, "message", "ExprValue">>,
      <<"ParseResponse", 1, "message", "ParsedExpr">>,
      <<"ParseResponse", 2, "message", "Status">>,
      <<"EvalResponse", 1, "message", "ExprValue">>,
      <<"EvalResponse", 2, "message", "Status">>,
      <<"ParsedExpr", 2, "message", "Expr">>, <<"ParsedExpr", 3, "message", "SourceInfo">>,
      <<"CheckedExpr", 2, "message", "CheckedExpr.ReferenceMapEntry">>,
      <<"CheckedExpr", 3, "message", "CheckedExpr.TypeMapEntry">>,
      <<"CheckedExpr", 4, "message", "Expr">>,
      <<"CheckedExpr", 5, "message", "SourceInfo">>,
      <<"CheckedExpr", 6, "string", "">>,
      <<"CheckedExpr.ReferenceMapEntry", 1, "varint", "">>,
      <<"CheckedExpr.ReferenceMapEntry", 2, "message", "Reference">>,
      <<"CheckedExpr.TypeMapEntry", 1, "varint", "">>,
      <<"CheckedExpr.TypeMapEntry", 2, "message", "Type">>,
      <<"Reference", 1, "string", "">>, <<"Reference", 3, "string", "">>,
      <<"Reference", 4, "message", "Constant">>,
      <<"Type", 1, "message", "Empty">>, <<"Type", 2, "varint", "">>,
      <<"Type", 3, "varint", "">>, <<"Type", 4, "varint", "">>,
      <<"Type", 5, "varint", "">>, <<"Type", 6, "message", "Type.ListType">>,
      <<"Type", 7, "message", "Type.MapType">>,
      <<"Type", 8, "message", "Type.FunctionType">>,
      <<"Type", 9, "string", "">>, <<"Type", 10, "string", "">>,
      <<"Type", 11, "message", "Type">>, <<"Type", 12, "message", "Empty">>,
      <<"Type", 14, "message", "Type.AbstractType">>,
      <<"Type.ListType", 1, "message", "Type">>,
      <<"Type.MapType", 1, "message", "Type">>, <<"Type.MapType", 2, "message", "Type">>,
      <<"Type.FunctionType", 1, "message", "Type">>,
      <<"Type.FunctionType", 2, "message", "Type">>,
      <<"Type.AbstractType", 1, "string", "">>,
      <<"Type.AbstractType", 2, "message", "Type">>,
      <<"SourceInfo", 1, "string", "">>, <<"SourceInfo", 2, "string", "">>,
      <<"SourceInfo", 3, "packed", "">>,
      <<"SourceInfo", 4, "message", "SourceInfo.PositionsEntry">>,
      <<"SourceInfo", 5, "message", "SourceInfo.MacroCallsEntry">>,
      <<"SourceInfo.PositionsEntry", 1, "varint", "">>,
      <<"SourceInfo.PositionsEntry", 2, "varint", "">>,
      <<"SourceInfo.MacroCallsEntry", 1, "varint", "">>,
      <<"SourceInfo.MacroCallsEntry", 2, "message", "Expr">>,
      <<"Expr", 2, "varint", "">>, <<"Expr", 3, "message", "Constant">>,
      <<"Expr", 4, "message", "Expr.Ident">>, <<"Expr", 5, "message", "Expr.Select">>,
      <<"Expr", 6, "message", "Expr.Call">>, <<"Expr", 7, "message", "Expr.CreateList">>,
      <<"Expr", 8, "message", "Expr.CreateStruct">>,
      <<"Expr", 9, "message", "Expr.Comprehension">>,
      <<"Expr.Ident", 1, "string", "">>,
      <<"Expr.Select", 1, "message", "Expr">>, <<"Expr.Select", 2, "string", "">>,
      <<"Expr.Select", 3, "varint", "">>,
      <<"Expr.Call", 1, "message", "Expr">>, <<"Expr.Call", 2, "string", "">>,
      <<"Expr.Call", 3, "message", "Expr">>,
      <<"Expr.CreateList", 1, "message", "Expr">>, <<"Expr.CreateList", 2, "packed", "">>,
      <<"Expr.CreateStruct", 1, "string", "">>,
      <<"Expr.CreateStruct", 2, "message", "Expr.CreateStruct.Entry">>,
      <<"Expr.CreateStruct.Entry", 1, "varint", "">>,
      <<"Expr.CreateStruct.Entry", 2, "string", "">>,
      <<"Expr.CreateStruct.Entry", 3, "message", "Expr">>,
      <<"Expr.CreateStruct.Entry", 4, "message", "Expr">>,
      <<"Expr.CreateStruct.Entry", 5, "varint", "">>,
      <<"Expr.Comprehension", 1, "string", "">>,
      <<"Expr.Comprehension", 2, "message", "Expr">>,
      <<"Expr.Comprehension", 3, "string", "">>,
      <<"Expr.Comprehension", 4, "message", "Expr">>,
      <<"Expr.Comprehension", 5, "message", "Expr">>,
      <<"Expr.Comprehension", 6, "message", "Expr">>,
      <<"Expr.Comprehension", 7, "message", "Expr">>,
      <<"Constant", 1, "varint", "">>, <<"Constant", 2, "varint", "">>,
      <<"Constant", 3, "varint", "">>, <<"Constant", 4, "varint", "">>,
      <<"Constant", 5, "fixed64", "">>, <<"Constant", 6, "string", "">>,
      <<"Constant", 7, "bytes", "">>, <<"Constant", 8, "message", "Duration">>,
      <<"Constant", 9, "message", "Timestamp">>,
      <<"Duration", 1, "varint", "">>, <<"Duration", 2, "varint", "">>,
      <<"Timestamp", 1, "varint", "">>, <<"Timestamp", 2, "varint", "">>,
      <<"ExprValue", 1, "message", "Value">>, <<"ExprValue", 2, "message", "ErrorSet">>,
      <<"ExprValue", 3, "message", "UnknownSet">>,
      <<"ErrorSet", 1, "message", "Status">>, <<"UnknownSet", 1, "packed", "">>,
      <<"Status", 1, "varint", "">>, <<"Status", 2, "string", "">>,
      <<"Status", 3, "message", "Any">>,
      <<"Any", 1, "string", "">>, <<"Any", 2, "bytes", "">>,
      <<"Value", 1, "varint", "">>, <<"Value", 2, "varint", "">>,
      <<"Value", 3, "varint", "">>, <<"Value", 4, "varint", "">>,
      <<"Value", 5, "fixed64", "">>, <<"Value", 6, "string", "">>,
      <<"Value", 7, "bytes", "">>, <<"Value", 9, "message", "EnumValue">>,
      <<"Value", 10, "message", "Any">>, <<"Value", 11, "message", "MapValue">>,
      <<"Value", 12, "message", "ListValue">>, <<"Value", 15, "string", "">>,
      <<"EnumValue", 1, "string", "">>, <<"EnumValue", 2, "varint", "">>,
      <<"ListValue", 1, "message", "Value">>,
      <<"MapValue", 1, "message", "MapValue.Entry">>,
      <<"MapValue.Entry", 1, "message", "Value">>,
      <<"MapValue.Entry", 2, "message", "Value">>
    }

\* The field of a message type with a number: its kind and type, or the
\* kind "unknown" when the type has no field with the number.
FieldOf(type, num) ==
    The({IF rows = {} THEN [kind |-> "unknown", type |-> ""]
         ELSE The({[kind |-> row[3], type |-> row[4]] : row \in rows})
         : rows \in {{row \in Schema : row[1] = type /\ row[2] = num}}})

\* The wire types a field of a kind is read from; a repeated scalar is read
\* from one varint or from a packed payload.
WireTypesOf(kind) ==
    CASE kind \in {"string", "bytes", "message"} -> {2}
      [] kind = "varint"  -> {0}
      [] kind = "packed"  -> {0, 2}
      [] kind = "fixed64" -> {1}
      [] OTHER            -> {}

\* Whether a field read is a field of the message type; it is kept as an
\* unknown field otherwise.
Known(type, f) == f.wt \in WireTypesOf(FieldOf(type, f.num).kind)

\* Whether the data is a sequence of varints of at most ten bytes.
VarintsOnly(data) ==
    \/ data = <<>>
    \/ /\ data[Len(data)] < 128
       /\ \A i \in 1..(Len(data) - kMaxVarintBytes + 1) :
             \E j \in i..(i + kMaxVarintBytes - 1) : data[j] < 128

\* Message::ParseFromString into a message of a type: the fields are read
\* in order; a string field must hold UTF-8, a packed field varints, and
\* the payload of a message field is parsed as a message of the field's
\* type.  The parse ends at the first field that fails, which stays in the
\* message with what was read of it; the payload of a message field that
\* failed is the serialisation of what was parsed of it.
RECURSIVE ParseFromString(_, _)
ParseFromString(type, data) ==
    The({The({The({IF bad = {}
                   THEN [ok |-> flat.ok, proto |-> flat.proto]
                   ELSE The({[ok |-> FALSE,
                              proto |-> SubSeq(flat.proto, 1, k - 1)
                                        \o <<[flat.proto[k] EXCEPT !.payload = read[k].payload]>>]
                             : k \in {CHOOSE i \in bad : \A j \in bad : i <= j}})
                   : bad \in {{i \in 1..Len(flat.proto) : ~read[i].ok}}})
              : read \in {[i \in 1..Len(flat.proto) |->
                    The({The({IF f.wt # 2 \/ field.kind \notin {"string", "packed", "message"}
                              THEN [ok |-> TRUE, payload |-> f.payload]
                              ELSE IF field.kind = "string"
                              THEN [ok |-> Utf8IsValid(f.payload), payload |-> f.payload]
                              ELSE IF field.kind = "packed"
                              THEN [ok |-> VarintsOnly(f.payload), payload |-> f.payload]
                              ELSE The({[ok |-> nested.ok,
                                         payload |-> IF nested.ok THEN f.payload
                                                     ELSE SerializeAsString(nested.proto)]
                                        : nested \in {ParseFromString(field.type, f.payload)}})
                              : field \in {FieldOf(type, f.num)}})
                         : f \in {flat.proto[i]}})]}})
         : flat \in {ParseFields(data)}})

\* PipeCodec::Decode into a message of a type: the status, and the message
\* as Decode leaves it (a line that is not base64 leaves it as it was,
\* empty).
Decode(line, type) ==
    The({IF ~proto_bytes.ok
         THEN [status |-> InvalidArgumentError("invalid base64"), proto |-> <<>>]
         ELSE The({IF ~parsed.ok
                   THEN [status |-> InvalidArgumentError("invalid proto bytes"),
                         proto |-> parsed.proto]
                   ELSE [status |-> OkStatus, proto |-> parsed.proto]
                   : parsed \in {ParseFromString(type, proto_bytes.bytes)}})
         : proto_bytes \in {Base64Unescape(line)}})

\* PipeCodec::Encode.
Encode(msg) == Base64Escape(SerializeAsString(msg))

\* The text of a message, shortened to its first letters.
Chars(text) ==
    CASE text = "No source code"         -> <<78, 111>>
      [] text = "Check is not supported" -> <<67, 104>>
      [] text = "parse error"            -> <<112, 97>>
      [] text = "build error"            -> <<98, 117>>
      [] text = "import error"           -> <<105, 109>>
      [] text = "eval error"             -> <<101, 118>>
      [] text = "error value"            -> <<101, 114>>
      [] text = "export error"           -> <<101, 120>>
      [] OTHER                           -> <<>>

\* google::rpc::Code of a status code (ToGrpcCode: the same number).
ToGrpcCode(code) ==
    CASE code = "ok"                  -> 0
      [] code = "unknown"             -> 2
      [] code = "invalid_argument"    -> 3
      [] code = "not_found"           -> 5
      [] code = "failed_precondition" -> 9
      [] code = "out_of_range"        -> 11
      [] code = "unimplemented"       -> 12
      [] code = "internal"            -> 13
      [] code = "unavailable"         -> 14

\* The length-delimited fields of a message with a given number (a string,
\* bytes or message field; with another wire type the field is unknown to
\* the message), and the payload of the last of them: of a singular string
\* field the last value read stays.
FieldsOf(proto, num) == SelectSeq(proto, LAMBDA f : f.num = num /\ f.wt = 2)
Has(proto, num) == FieldsOf(proto, num) # <<>>
PayloadOf(proto, num) ==
    The({IF fields = <<>> THEN <<>> ELSE fields[Len(fields)].payload
         : fields \in {FieldsOf(proto, num)}})

\* The fields that make the value of a oneof, or of one field (a oneof of
\* one member), in a message of a type: the fields of the member read last,
\* as far back as no other member was read in between; reading another
\* member clears the oneof, reading the same member again merges.
OneofRun(type, proto, members) ==
    The({The({[k \in 1..Cardinality(run) |->
                 proto[CHOOSE i \in run : Cardinality({j \in run : j < i}) = k - 1]]
              : run \in {{i \in read : \A j \in read : j >= i => proto[j].num = proto[i].num}}})
         : read \in {{i \in 1..Len(proto) : proto[i].num \in members /\ Known(type, proto[i])}}})

\* The message the payloads of message fields merge to: the fields of the
\* payloads, in order.
RECURSIVE MergeFrom(_)
MergeFrom(fields) ==
    IF fields = <<>> THEN <<>>
    ELSE ParseFields(fields[1].payload).proto \o MergeFrom(Tail(fields))

\* response.add_issues(): a google.rpc.Status with code and message, in
\* field 2 of ParseResponse, CheckResponse and EvalResponse.
Issue(text, code) ==
    Payload(2, SerializeAsString(<<Varint(1, ToGrpcCode(code)), Payload(2, Chars(text))>>))

\* An expression with id 1 that is a constant or an identifier, and the
\* constant int64 n, as messages.
ConstExpr(constant) ==
    <<Varint(2, 1), Payload(3, SerializeAsString(<<constant>>))>>
IdentExpr(name) ==
    <<Varint(2, 1), Payload(4, SerializeAsString(<<Payload(1, name)>>))>>

\* parser::Parse: the source "1" parses to the constant 1, the source "x"
\* to the identifier x; any other source here does not parse.  The source
\* information of the parsed expression is left out.
ParserParse(cel_source) ==
    CASE cel_source = <<49>> ->
            [ok |-> TRUE, status |-> OkStatus,
             parsed_expr |-> <<Payload(2, SerializeAsString(ConstExpr(Varint(3, 1))))>>]
      [] cel_source = <<120>> ->
            [ok |-> TRUE, status |-> OkStatus,
             parsed_expr |-> <<Payload(2, SerializeAsString(IdentExpr(<<120>>)))>>]
      [] OTHER ->
            [ok |-> FALSE, status |-> InvalidArgumentError("parse error"), parsed_expr |-> <<>>]

\* What a service operation leaves: whether it returned at all (a throw or
\* abort ends the process), its status and the response.
Returns(st, response) == [returned |-> TRUE, status |-> st, response |-> response]
Terminates(response)  == [returned |-> FALSE, status |-> OkStatus, response |-> response]

\* LegacyParse.  StatusOr::value() on a status that is not OK throws
\* BadStatusOrAccess, or aborts where exceptions are off.
LegacyParse(request) ==
    The({IF cel_source = <<>>
         THEN Returns(OkStatus, <<Issue("No source code", "invalid_argument")>>)
         ELSE The({IF ~parse_status.ok
                   THEN Terminates(<<Issue(parse_status.status.msg, "invalid_argument")>>)
                   ELSE Returns(OkStatus,
                                <<Payload(1, SerializeAsString(parse_status.parsed_expr))>>)
                   : parse_status \in {ParserParse(cel_source)}})
         : cel_source \in {PayloadOf(request, 1)}})

\* LegacyConformanceServiceImpl::Check.
ServiceCheck(request) ==
    Returns(OkStatus, <<Issue("Check is not supported", "unimplemented")>>)

\* ExtractExpr: the expression of the parsed or of the checked expression
\* of the request, whichever the oneof holds.  With neither, a null pointer
\* is dereferenced: the behaviour is undefined, and null_deref names what
\* the build makes of it, a crash or an empty expression.
ExtractExpr(request, null_deref) ==
    The({IF expr_kind = <<>>
         THEN [returned |-> null_deref # "crash", expr |-> <<>>]
         ELSE [returned |-> TRUE,
               expr |-> IF expr_kind[1].num = 1
                        THEN MergeFrom(OneofRun("ParsedExpr", MergeFrom(expr_kind), {2}))
                        ELSE MergeFrom(OneofRun("CheckedExpr", MergeFrom(expr_kind), {4}))]
         : expr_kind \in {OneofRun("EvalRequest", request, {1, 2})}})

\* A CelValue: its kind and what it holds, the groups of an integer, the
\* eight bytes of a double, the bytes of a string or of the name of a type.
CelValue(kind, data) == [kind |-> kind, data |-> data]
CelError == CelValue("error", <<>>)

\* The scalar kinds of Value and Constant, which number them alike.
ScalarKinds == 1..7
ValueKinds == (1..7) \cup {9, 10, 11, 12, 15}

\* The CelValue of the field that is the kind of a Value or a Constant: a
\* null whatever the number, a bool that is true for every number but 0.
ScalarToCelValue(f) ==
    CASE f.num = 1 -> CelValue("null", <<>>)
      [] f.num = 2 -> CelValue("bool", IF f.varint = <<>> THEN <<0>> ELSE <<1>>)
      [] f.num = 3 -> CelValue("int64", f.varint)
      [] f.num = 4 -> CelValue("uint64", f.varint)
      [] f.num = 5 -> CelValue("double", f.payload)
      [] f.num = 6 -> CelValue("string", f.payload)
      [] f.num = 7 -> CelValue("bytes", f.payload)

\* The names of types the type registry of the builder knows, among them
\* the builtin type int and the message type google.protobuf.Duration.
TypeNames ==
    {<<105, 110, 116>>,
     <<103, 111, 111, 103, 108, 101, 46, 112, 114, 111, 116, 111, 98, 117, 102, 46,
       68, 117, 114, 97, 116, 105, 111, 110>>}

\* static_cast<int32_t> of a varint read, as the groups of the int64 it
\* widens to: the low 32 bits, the sign bit filling the rest.
Int32Groups(groups) ==
    The({IF low[5] >= 8
         THEN SubSeq(low, 1, 4) \o <<low[5] + 112, 127, 127, 127, 127, 1>>
         ELSE Canonical(low)
         : low \in {[i \in 1..5 |-> IF i > Len(groups) THEN 0
                                    ELSE IF i = 5 THEN groups[i] % 16 ELSE groups[i]]}})

\* The names of the message types the descriptor pool holds.
MessageNames == {n \in TypeNames : Len(n) > 3}

\* CelProtoWrapper::CreateMessage of an Any: an error value when the type
\* url has no '/', names no message type of the pool, or the value does
\* not parse as a message of that type; the message otherwise.  The
\* unwrapping of a well-known type into a value of another kind is not
\* followed.
AnyToCelValue(any) ==
    The({The({IF slashes = {} THEN CelError
              ELSE The({IF name \notin MessageNames THEN CelError
                        ELSE IF ~ParseFromString("Duration", PayloadOf(any, 2)).ok THEN CelError
                        ELSE CelValue("message", [type_url |-> type_url,
                                                  value |-> PayloadOf(any, 2)])
                        : name \in {SubSeq(type_url,
                                           (CHOOSE i \in slashes : \A j \in slashes : j <= i) + 1,
                                           Len(type_url))}})
              : slashes \in {{i \in 1..Len(type_url) : type_url[i] = 47}}})
         : type_url \in {PayloadOf(any, 1)}})

\* The Values a list Value holds, or the keys and values of the entries of
\* a map Value, key before value; an entry without one holds an empty
\* Value in its place.
SubValues(kind) ==
    The({IF kind[1].num = 12
         THEN [i \in 1..Len(fields) |-> ParseFields(fields[i].payload).proto]
         ELSE [i \in 1..(2 * Len(fields)) |->
                 MergeFrom(OneofRun("MapValue.Entry",
                                    ParseFields(fields[(i + 1) \div 2].payload).proto,
                                    {2 - (i % 2)}))]
         : fields \in {FieldsOf(MergeFrom(kind), 1)}})

\* CelValue::CheckMapKeyType.
CheckMapKeyType(key) == key.kind \in {"bool", "int64", "uint64", "string"}

\* ValueToCelValue: the CelValue of the kind the Value holds; a Value
\* without a kind is refused.  An enum value gives its number, a list and a
\* map are imported element by element and are refused when an element is,
\* a map also when a key is not of a key type or is there twice.
RECURSIVE ValueToCelValue(_)
ValueToCelValue(value) ==
    The({IF kind = <<>> THEN [ok |-> FALSE, val |-> CelError]
         ELSE IF kind[1].num \in ScalarKinds
         THEN [ok |-> TRUE, val |-> ScalarToCelValue(kind[Len(kind)])]
         ELSE IF kind[1].num = 15
         THEN [ok |-> TRUE, val |-> CelValue("type", kind[Len(kind)].payload)]
         ELSE IF kind[1].num = 9
         THEN The({[ok |-> TRUE,
                    val |-> CelValue("int64",
                                     IF numbers = <<>> THEN <<>>
                                     ELSE Int32Groups(numbers[Len(numbers)].varint))]
                   : numbers \in {SelectSeq(MergeFrom(kind),
                                            LAMBDA f : f.num = 2 /\ f.wt = 0)}})
         ELSE IF kind[1].num = 10
         THEN [ok |-> TRUE, val |-> AnyToCelValue(MergeFrom(kind))]
         ELSE The({IF \E i \in 1..Len(subs) : ~subs[i].ok
                   THEN [ok |-> FALSE, val |-> CelError]
                   ELSE IF kind[1].num = 12
                   THEN [ok |-> TRUE,
                         val |-> CelValue("list", [i \in 1..Len(subs) |-> subs[i].val])]
                   ELSE The({IF \/ \E i \in 1..Len(entries) : ~CheckMapKeyType(entries[i].key)
                                \/ \E i, j \in 1..Len(entries) :
                                      i # j /\ entries[i].key = entries[j].key
                             THEN [ok |-> FALSE, val |-> CelError]
                             ELSE [ok |-> TRUE, val |-> CelValue("map", entries)]
                             : entries \in {[i \in 1..(Len(subs) \div 2) |->
                                              [key |-> subs[2 * i - 1].val,
                                               value |-> subs[2 * i].val]]}})
                   : subs \in {The({[i \in 1..Len(elems) |-> ValueToCelValue(elems[i])]
                                    : elems \in {SubValues(kind)}})}})
         : kind \in {OneofRun("Value", value, ValueKinds)}})

\* The string an error value within a list or a map is exported as.
kErrorString ==
    <<67, 101, 108, 86, 97, 108, 117, 101, 58, 58, 84, 121, 112, 101, 58, 58,
      107, 69, 114, 114, 111, 114>>

\* CelValueToValue: the field that is the kind of the Value exported; a
\* list and a map are exported element by element, the entries of a map in
\* the order they were put in.  The kind "opaque" stands for a result that
\* cannot be exported.
RECURSIVE CelValueToValue(_)
CelValueToValue(value) ==
    CASE value.kind = "null"   -> [ok |-> TRUE, val |-> Unknown(1, 0, <<>>, <<>>)]
      [] value.kind = "bool"   -> [ok |-> TRUE, val |-> Unknown(2, 0, Canonical(value.data), <<>>)]
      [] value.kind = "int64"  -> [ok |-> TRUE, val |-> Unknown(3, 0, value.data, <<>>)]
      [] value.kind = "uint64" -> [ok |-> TRUE, val |-> Unknown(4, 0, value.data, <<>>)]
      [] value.kind = "double" -> [ok |-> TRUE, val |-> Unknown(5, 1, <<>>, value.data)]
      [] value.kind = "string" -> [ok |-> TRUE, val |-> Payload(6, value.data)]
      [] value.kind = "bytes"  -> [ok |-> TRUE, val |-> Payload(7, value.data)]
      [] value.kind = "type"   -> [ok |-> TRUE, val |-> Payload(15, value.data)]
      [] value.kind = "error"  -> [ok |-> TRUE, val |-> Payload(6, kErrorString)]
      [] value.kind = "message" ->
            [ok |-> TRUE,
             val |-> Payload(10, SerializeAsString(
                        <<Payload(1, value.data.type_url)>>
                        \o (IF value.data.value = <<>> THEN <<>>
                            ELSE <<Payload(2, value.data.value)>>)))]
      [] value.kind \in {"list", "map"} ->
            The({IF \E i \in 1..Len(subs) : ~subs[i].ok
                 THEN [ok |-> FALSE, val |-> Unknown(0, 0, <<>>, <<>>)]
                 ELSE IF value.kind = "list"
                 THEN [ok |-> TRUE,
                       val |-> Payload(12, SerializeAsString(
                                  [i \in 1..Len(subs) |->
                                     Payload(1, SerializeAsString(<<subs[i].val>>))]))]
                 ELSE [ok |-> TRUE,
                       val |-> Payload(11, SerializeAsString(
                                  [i \in 1..(Len(subs) \div 2) |->
                                     Payload(1, SerializeAsString(
                                        <<Payload(1, SerializeAsString(<<subs[2 * i - 1].val>>)),
                                          Payload(2, SerializeAsString(<<subs[2 * i].val>>))>>))]))]
                 : subs \in {The({[i \in 1..Len(cels) |-> CelValueToValue(cels[i])]
                                  : cels \in {IF value.kind = "list" THEN value.data
                                              ELSE [i \in 1..(2 * Len(value.data)) |->
                                                      IF i % 2 = 1
                                                      THEN value.data[(i + 1) \div 2].key
                                                      ELSE value.data[(i + 1) \div 2].value]}})}})
      [] OTHER                  -> [ok |-> FALSE, val |-> Unknown(0, 0, <<>>, <<>>)]

\* request.bindings(): the entries of the map, each with its key and
\* pair.second.value(), the Value of the ExprValue or an empty Value when
\* the ExprValue holds none; of the entries with one key the last stays.
Bindings(request) ==
    The({SelectSeq(all, LAMBDA e : \A j \in 1..Len(all) :
                                      all[j].key = e.key => all[j].at <= e.at)
         : all \in {The({[i \in 1..Len(entries) |->
                           The({The({[at |-> i,
                                      key |-> PayloadOf(entry, 1),
                                      value |-> IF kind # <<>> /\ kind[1].num = 1
                                                THEN MergeFrom(kind) ELSE <<>>]
                                     : kind \in {OneofRun("ExprValue",
                                           MergeFrom(OneofRun("EvalRequest.BindingsEntry",
                                                              entry, {2})),
                                           {1, 2, 3})}})
                                : entry \in {ParseFields(entries[i].payload).proto}})]
                         : entries \in {OneofRun("EvalRequest", request, {3})}})}})

\* The names a name stands for in a container, the innermost first: the
\* name within the container, within each container around it, and alone.
Candidates(container, name) ==
    The({[k \in 1..(Cardinality(cuts) + 1) |->
            IF k > Cardinality(cuts) THEN name
            ELSE SubSeq(container, 1,
                        CHOOSE i \in cuts : Cardinality({j \in cuts : j > i}) = k - 1)
                 \o <<46>> \o name]
         : cuts \in {{i \in 1..Len(container) :
                        i = Len(container) \/ container[i + 1] = 46}}})

\* CelExpressionBuilder::CreateExpression with the container set before:
\* the plan of a constant, of an identifier that names a type in the
\* container, or of an identifier to look up; an expression without a kind
\* and a constant without a kind cannot be planned.  Of the other kinds,
\* which are not followed, a struct stands for an expression whose result
\* cannot be exported and a comprehension for one whose evaluation fails;
\* the rest count as not planned.
CreateExpression(expr, container) ==
    The({IF expr_kind = <<>> THEN [ok |-> FALSE, step |-> "none", arg |-> CelError]
         ELSE CASE expr_kind[1].num = 3 ->
                     The({IF kind = <<>> \/ kind[1].num \notin ScalarKinds
                          THEN [ok |-> FALSE, step |-> "none", arg |-> CelError]
                          ELSE [ok |-> TRUE, step |-> "const",
                                arg |-> ScalarToCelValue(kind[Len(kind)])]
                          : kind \in {OneofRun("Constant", MergeFrom(expr_kind), 1..9)}})
                [] expr_kind[1].num = 4 ->
                     The({The({IF \E k \in 1..Len(names) : names[k] \in TypeNames
                               THEN [ok |-> TRUE, step |-> "const",
                                     arg |-> CelValue("type",
                                        names[CHOOSE k \in 1..Len(names) :
                                                 /\ names[k] \in TypeNames
                                                 /\ \A j \in 1..(k - 1) : names[j] \notin TypeNames])]
                               ELSE [ok |-> TRUE, step |-> "ident", arg |-> CelValue("name", name)]
                               : names \in {Candidates(container, name)}})
                          : name \in {PayloadOf(MergeFrom(expr_kind), 1)}})
                [] expr_kind[1].num = 8 ->
                     [ok |-> TRUE, step |-> "const", arg |-> CelValue("opaque", <<>>)]
                [] expr_kind[1].num = 9 ->
                     [ok |-> TRUE, step |-> "fail", arg |-> CelError]
                [] OTHER -> [ok |-> FALSE, step |-> "none", arg |-> CelError]
         : expr_kind \in {OneofRun("Expr", expr, 3..9)}})

\* CelExpression::Evaluate: the constant; the value the activation holds
\* for the identifier, or an error value when it holds none; or a status
\* that is not OK.
Evaluate(plan, activation) ==
    CASE plan.step = "const" -> [ok |-> TRUE, val |-> plan.arg]
      [] plan.step = "ident" ->
            IF \E i \in 1..Len(activation) : activation[i].key = plan.arg.data
            THEN [ok |-> TRUE,
                  val |-> activation[CHOOSE i \in 1..Len(activation) :
                                        activation[i].key = plan.arg.data].val]
            ELSE [ok |-> TRUE, val |-> CelError]
      [] OTHER -> [ok |-> FALSE, val |-> CelError]

\* EvalResponse.result holding an error set with one message, or a value.
ResultError(text) ==
    Payload(1, SerializeAsString(<<Payload(2,
        SerializeAsString(<<Payload(1, SerializeAsString(<<Payload(2, Chars(text))>>))>>))>>))
ResultValue(value) == Payload(1, SerializeAsString(<<Payload(1, value)>>))

\* LegacyConformanceServiceImpl::Eval: the expression is extracted, the
\* container of the request is set on the builder and the expression is
\* planned; every binding is imported and put into the activation, the
\* first that cannot be imported ending the call; the expression is
\* evaluated and its result exported.
ServiceEval(request, null_deref) ==
    The({IF ~expr.returned THEN Terminates(<<>>)
         ELSE The({IF ~plan.ok THEN Returns(InternalError("build error"), <<>>)
              ELSE The({IF \E i \in 1..Len(imports) : ~imports[i].ok
                   THEN Returns(InternalError("import error"), <<>>)
                   ELSE The({IF ~eval_status.ok
                        THEN Returns(OkStatus, <<ResultError("eval error")>>)
                        ELSE IF eval_status.val.kind = "error"
                        THEN Returns(OkStatus, <<ResultError("error value")>>)
                        ELSE The({IF ~export_status.ok
                                  THEN Returns(InternalError("export error"), <<>>)
                                  ELSE Returns(OkStatus,
                                     <<ResultValue(SerializeAsString(<<export_status.val>>))>>)
                                  : export_status \in {CelValueToValue(eval_status.val)}})
                        : eval_status \in {Evaluate(plan,
                              [i \in 1..Len(imports) |->
                                  [key |-> imports[i].key, val |-> imports[i].val]])}})
                   : imports \in {The({[i \in 1..Len(bindings) |->
                                          The({[key |-> bindings[i].key, ok |-> import_status.ok,
                                                val |-> import_status.val]
                                               : import_status \in
                                                   {ValueToCelValue(bindings[i].value)}})]
                                       : bindings \in {Bindings(request)}})}})
              : plan \in {CreateExpression(expr.expr, PayloadOf(request, 4))}})
         : expr \in {ExtractExpr(request, null_deref)}})

\* A faulty variant of the last branches of the loop, kept to show that
\* the properties tell it apart: an empty command is taken for an unknown
\* one.
ExitAlwaysUnexpected(cmd) ==
    [returned |-> TRUE, exit |-> TRUE, code |-> 2, output |-> <<>>, set_container |-> FALSE,
     container |-> <<>>]

\* The last branches of the loop: an empty command returns 0, any other
\* command returns 2.
Exit(cmd) ==
    IF cmd = ""
    THEN [returned |-> TRUE, exit |-> TRUE, code |-> 0, output |-> <<>>, set_container |-> FALSE,
     container |-> <<>>]
    ELSE [returned |-> TRUE, exit |-> TRUE, code |-> 2, output |-> <<>>, set_container |-> FALSE,
     container |-> <<>>]

\* The message type a command decodes its request line into, and the type
\* of its response.
RequestType(cmd) ==
    CASE cmd = "parse" -> "ParseRequest"
      [] cmd = "eval"  -> "EvalRequest"
      [] OTHER         -> "Empty"
ResponseType(cmd) ==
    CASE cmd = "parse" -> "ParseResponse"
      [] cmd = "eval"  -> "EvalResponse"
      [] OTHER         -> "Empty"

\* One turn of the loop of RunServer after the two lines are read: whether
\* the turn returned, whether the server exits and with what code, the line
\* it writes otherwise, and whether the container of the builder was set.
\* A request line that cannot be decoded is logged, and the request is used
\* as Decode left it.
RunCommand(cmd, input, null_deref) ==
    IF cmd = "parse"
    THEN The({[returned |-> parse.returned, exit |-> FALSE, code |-> 0,
               output |-> Encode(parse.response), set_container |-> FALSE,
               container |-> <<>>]
              : parse \in {LegacyParse(Decode(input, "ParseRequest").proto)}})
    ELSE IF cmd = "eval"
    THEN The({The({[returned |-> eval.returned, exit |-> FALSE, code |-> 0,
                    output |-> Encode(IF eval.status # OkStatus
                                      THEN eval.response
                                           \o <<Issue(eval.status.msg, eval.status.code)>>
                                      ELSE eval.response),
                    set_container |-> eval.returned,
                    container |-> PayloadOf(request, 4)]
                   : eval \in {ServiceEval(request, null_deref)}})
              : request \in {Decode(input, "EvalRequest").proto}})
    ELSE IF cmd = "ping"
    THEN [returned |-> TRUE, exit |-> FALSE, code |-> 0, output |-> Encode(<<>>),
          set_container |-> FALSE, container |-> <<>>]
    ELSE Exit(cmd)

\* Requests: an eval request with a parsed expression, with a checked
\* expression, a binding of a name to a value, a container.
Parsed(expr)  == Payload(1, SerializeAsString(<<Payload(2, SerializeAsString(expr))>>))
Checked(expr) == Payload(2, SerializeAsString(<<Payload(4, SerializeAsString(expr))>>))
Binding(name, expr_value) ==
    Payload(3, SerializeAsString(<<Payload(1, name), Payload(2, SerializeAsString(expr_value))>>))
Container(name) == Payload(4, name)

\* The command lines and the request lines the server is given.
CommandInputs == {"parse", "check", "eval", "ping", "", "quit"}
RequestInputs ==
    {Encode(<<>>),
     Encode(<<Payload(1, <<49>>)>>),
     Encode(<<Payload(1, <<120>>)>>),
     Encode(<<Payload(1, <<43>>)>>),
     Encode(<<Payload(1, <<255>>)>>),
     Encode(<<Parsed(ConstExpr(Varint(3, 42)))>>),
     Encode(<<Parsed(ConstExpr(Varint(2, 42)))>>),
     Encode(<<Parsed(<<Varint(2, 1)>>)>>),
     Encode(<<Parsed(<<Payload(8, <<>>)>>)>>),
     Encode(<<Parsed(<<Payload(9, <<>>)>>)>>),
     Encode(<<Checked(IdentExpr(<<120>>))>>),
     Encode(<<Checked(IdentExpr(<<120>>)),
              Binding(<<120>>, <<Payload(1, SerializeAsString(<<Varint(3, 7)>>))>>)>>),
     Encode(<<Parsed(ConstExpr(Varint(3, 42))), Binding(<<120>>, <<>>)>>),
     Encode(<<Parsed(ConstExpr(Varint(3, 42))), Checked(IdentExpr(<<120>>))>>),
     Encode(<<Parsed(IdentExpr(<<105, 110, 116>>))>>),
     Encode(<<Parsed(IdentExpr(<<68, 117, 114, 97, 116, 105, 111, 110>>)),
              Container(<<103, 111, 111, 103, 108, 101, 46, 112, 114, 111, 116, 111,
                          98, 117, 102>>)>>),
     Encode(<<Checked(IdentExpr(<<120>>)),
              Binding(<<120>>, <<Payload(1, SerializeAsString(<<Payload(12,
                  SerializeAsString(<<Payload(1, SerializeAsString(<<Varint(3, 7)>>)),
                                      Payload(1, SerializeAsString(<<Payload(6, <<97>>)>>))>>))>>))>>)>>),
     Encode(<<Checked(IdentExpr(<<120>>)),
              Binding(<<120>>, <<Payload(1, SerializeAsString(<<Payload(11,
                  SerializeAsString(<<Payload(1, SerializeAsString(
                      <<Payload(1, SerializeAsString(<<Payload(6, <<97>>)>>)),
                        Payload(2, SerializeAsString(<<Payload(9,
                            SerializeAsString(<<Unknown(2, 0, <<127, 127, 127, 127, 127>>, <<>>)>>))>>))>>))>>))>>))>>)>>),
     Encode(<<Checked(IdentExpr(<<120>>)),
              Binding(<<120>>, <<Payload(1, SerializeAsString(<<Payload(11,
                  SerializeAsString(<<Payload(1, SerializeAsString(
                      <<Payload(1, SerializeAsString(<<Unknown(5, 1, <<>>, <<0, 0, 0, 0, 0, 0, 0, 0>>)>>)),
                        Payload(2, SerializeAsString(<<Varint(3, 7)>>))>>))>>))>>))>>)>>),
     Encode(<<Checked(IdentExpr(<<120>>)),
              Binding(<<120>>, <<Payload(1, SerializeAsString(<<Payload(12,
                  SerializeAsString(<<Payload(1, SerializeAsString(<<Payload(10,
                      SerializeAsString(<<Payload(1, <<97, 47, 98>>)>>))>>))>>))>>))>>)>>),
     Encode(<<Payload(2, <<34, 1, 1>>)>>),
     Base64Escape(<<10>>),
     Base64Escape(<<10, 1, 43, 10>>),
     Base64Escape(<<10, 1, 49>>) \o <<Pad>>,
     Encode(<<Payload(1, <<49>>), Unknown(3, 5, <<>>, <<0, 0, 0, 0>>)>>),
     <<NotBase64>>}

InitServer ==
    /\ BuilderInit /\ ValueIdle /\ FactoryIdle /\ SingletonIdle /\ FrameIdle /\ RestIdle
    /\ server = [at |-> "start", code |-> 0, out |-> <<>>, cmd |-> "", input |-> <<>>,
                 commands |-> 0, container |-> <<>>]

\* RunServer up to the loop: the service is created, or the server exits
\* with 1.
ServerCreate(created) ==
    /\ server.at = "start"
    /\ server' = IF created THEN [server EXCEPT !.at = "loop"]
                 ELSE [server EXCEPT !.at = "exited", !.code = 1]
    /\ UNCHANGED <<builderVars, valueVars, factoryVars, singletonVars, frameVars, moveVars, iteratorVars, legacyVars>>

\* One turn of the loop: two lines are read and the command is run.
ServerCommand(cmd, input, null_deref) ==
    /\ server.at = "loop"
    /\ server.commands < MaxCommands
    /\ LET run == RunCommand(cmd, input, null_deref)
       IN  server' =
             [at |-> IF ~run.returned THEN "terminated"
                     ELSE IF run.exit THEN "exited" ELSE "loop",
              code |-> run.code,
              out |-> IF run.returned /\ ~run.exit
                      THEN Append(server.out, run.output) ELSE server.out,
              cmd |-> cmd, input |-> input,
              commands |-> server.commands + 1,
              container |-> IF run.set_container THEN run.container ELSE server.container]
    /\ UNCHANGED <<builderVars, valueVars, factoryVars, singletonVars, frameVars, moveVars, iteratorVars, legacyVars>>

NextServer ==
    \/ \E created \in BOOLEAN : ServerCreate(created)
    \/ \E cmd \in CommandInputs, input \in RequestInputs,
          null_deref \in {"crash", "empty expression"} :
            ServerCommand(cmd, input, null_deref)

SpecServer == InitServer /\ [][NextServer]_vars

\* The server has read a command, and the response of its last output line.
CommandRead == server.at # "start" /\ server.commands > 0
LastResponse == Decode(server.out[Len(server.out)], ResponseType(server.cmd))
\* The request of the command read, as Decode left it.
LastRequest == Decode(server.input, RequestType(server.cmd))

\* C13: no input ends the process by a throw or an abort; a parse request
\* whose source does not parse and an eval request with neither a parsed
\* nor a checked expression are answered with a response holding an issue
\* or an error result.
C13_NoInputTerminates ==
    /\ server.at # "terminated"
    /\ (/\ CommandRead
        /\ \/ /\ server.cmd = "parse"
              /\ PayloadOf(LastRequest.proto, 1) # <<>>
              /\ ~ParserParse(PayloadOf(LastRequest.proto, 1)).ok
           \/ /\ server.cmd = "eval"
              /\ OneofRun("EvalRequest", LastRequest.proto, {1, 2}) = <<>>)
          => /\ server.at = "loop"
             /\ Len(server.out) = server.commands
             /\ LastResponse.status = OkStatus
             /\ Has(LastResponse.proto, 2) \/ Has(LastResponse.proto, 1)

\* C13, the case that fails: the parse request for the source "+", which
\* does not parse, ends the process without a response.
C13_ParseErrorTerminates ==
    /\ server.at = "terminated"
    /\ server.cmd = "parse"
    /\ server.input = Encode(<<Payload(1, <<43>>)>>)
    /\ server.out = <<>>

\* The commands of the protocol.
Commands == {"parse", "check", "eval", "ping"}

\* C15: the server exits with 0 when the command read is empty and with 2
\* when it is not a command of the protocol, whatever commands it has
\* processed before; when the service cannot be created it exits with 1
\* and has read no command.
C15_ExitCodes ==
    /\ (CommandRead /\ server.cmd = "")
          => server.at = "exited" /\ server.code = 0
    /\ (CommandRead /\ server.cmd \notin Commands \cup {""})
          => server.at = "exited" /\ server.code = 2
    /\ (server.at = "exited" /\ server.commands = 0)
          => server.code = 1 /\ server.out = <<>>
    /\ (server.at = "exited" /\ server.code = 1) => server.commands = 0

\* C15, its case: after one command answered, the empty command ends the
\* server with 0.
C15_EmptyCommandAfterAnswer ==
    /\ server.at = "exited" /\ server.code = 0
    /\ server.commands = MaxCommands
    /\ server.cmd = ""
    /\ Len(server.out) = MaxCommands - 1

\* C16: each of the commands parse, check, eval and ping is answered with
\* exactly one line, the base64 of a response protobuf, and the server
\* goes on to read the next command.
C16_CommandAnswered ==
    (CommandRead /\ server.cmd \in Commands)
        => /\ server.at = "loop"
           /\ Len(server.out) = server.commands
           /\ LastResponse.status = OkStatus
           /\ Encode(LastResponse.proto) = server.out[Len(server.out)]

\* C16, the case that fails: the command check is not answered, the server
\* exits with 2.
C16_CheckEndsServer ==
    /\ server.cmd = "check"
    /\ server.commands = 1
    /\ server.at = "exited" /\ server.code = 2
    /\ server.out = <<>>

---------------------------------------------------------------------------
(* The lazy-initialisation steps of the evaluator: an execution frame with *)
(* its comprehension slots and value stack, running an expression table.   *)

\* The sizes the frame is built with.
kValueStack == 5
kComprehensionSlotCount == 3
Slots == 0..(kComprehensionSlotCount - 1)

\* The steps of an execution path.
CreateCheckLazyInitStep(slot_index, subexpression_index) ==
    [op |-> "CheckLazyInit", slot_index |-> slot_index,
     subexpression_index |-> subexpression_index, value |-> NullValue]
CreateAssignSlotStep(slot_index) ==
    [op |-> "AssignSlot", slot_index |-> slot_index, subexpression_index |-> 0,
     value |-> NullValue]
CreateAssignSlotAndPopStep(slot_index) ==
    [op |-> "AssignSlotAndPop", slot_index |-> slot_index, subexpression_index |-> 0,
     value |-> NullValue]
CreateClearSlotStep(slot_index) ==
    [op |-> "ClearSlot", slot_index |-> slot_index, subexpression_index |-> 0,
     value |-> NullValue]
CreateConstValueStep(value) ==
    [op |-> "ConstValue", slot_index |-> 0, subexpression_index |-> 0, value |-> value]

\* A comprehension slot: empty (Get gives nullptr) or holding a value.
EmptySlot == [has |-> FALSE, value |-> NullValue]
SlotOf(value) == [has |-> TRUE, value |-> value]

\* The expression tables run: position 0 is the main path, the others are
\* subexpressions.  The first five are the programs of the tests; in the
\* sixth a lazily bound subexpression is used twice, cleared and used
\* again; the seventh assigns other slots.
Int42 == IntValue(W(42))
Int7  == IntValue(W(7))
ExpressionTables ==
    { << <<CreateCheckLazyInitStep(0, 1)>>, <<CreateConstValueStep(Int42)>> >>,
      << <<CreateCheckLazyInitStep(0, 1), CreateAssignSlotStep(0), CreateClearSlotStep(0)>>,
         <<CreateConstValueStep(Int42)>> >>,
      << <<CreateAssignSlotStep(0)>> >>,
      << <<CreateAssignSlotAndPopStep(0)>> >>,
      << <<CreateClearSlotStep(0)>> >>,
      << <<CreateCheckLazyInitStep(0, 1), CreateAssignSlotStep(0),
           CreateCheckLazyInitStep(0, 1), CreateAssignSlotStep(0),
           CreateClearSlotStep(0),
           CreateCheckLazyInitStep(0, 1), CreateAssignSlotAndPopStep(0)>>,
         <<CreateConstValueStep(Int42)>> >>,
      << <<CreateAssignSlotStep(1), CreateAssignSlotAndPopStep(2),
           CreateAssignSlotAndPopStep(0)>> >> }

\* The slots and the value stack a frame starts with.
SlotInputs ==
    { [i \in Slots |-> EmptySlot],
      [i \in Slots |-> IF i = 0 THEN SlotOf(Int42) ELSE EmptySlot],
      [i \in Slots |-> IF i = 0 THEN EmptySlot ELSE SlotOf(Int7)] }
StackInputs == { <<>>, <<Int42>>, <<Int7, Int42>> }

\* The frame before Evaluate: at the first step of the main path; evals
\* counts, per slot, the evaluations of its subexpression since the slot
\* was last cleared.
InitFrame ==
    /\ BuilderInit /\ ValueIdle /\ FactoryIdle /\ SingletonIdle /\ ServerIdle
    /\ RestIdle
    /\ \E table \in ExpressionTables, slots \in SlotInputs, stack \in StackInputs :
          frame = [expression_table |-> table, expr |-> 0, pc |-> 0, calls |-> <<>>,
                   slots |-> slots, stack |-> stack, initial_stack_size |-> Len(stack),
                   at |-> "running", status |-> OkStatus, result |-> NullValue,
                   evals |-> [i \in Slots |-> 0]]

\* The path being run and the step at the program counter.
CurrentPath == frame.expression_table[frame.expr + 1]
AtStep == frame.at = "running" /\ frame.pc < Len(CurrentPath)
CurrentStep == CurrentPath[frame.pc + 1]
At(kind) == AtStep /\ CurrentStep.op = kind

\* Evaluate ends with the status of a step that failed.
Fail(f, st) == [f EXCEPT !.at = "returned", !.status = st]

\* value_stack().HasEnough, Peek, Push, Pop.
HasEnough(stack, n) == Len(stack) >= n
Peek(stack) == stack[Len(stack)]
Push(stack, value) == Append(stack, value)
Pop(stack) == SubSeq(stack, 1, Len(stack) - 1)

\* The check turned off: the value is always initialised anew.
SlotIsInitNever(slots, slot_index) == FALSE
\* comprehension_slots().Get(slot_index) gives a slot holding a value.
SlotIsInit(slots, slot_index) == slots[slot_index].has

\* CheckLazyInit: a slot holding a value gives that value and the next step
\* (the assignment) is jumped over; an empty slot has its subexpression
\* called, the frame returning to the next step afterwards.
CheckLazyInitEvaluate(f, step) ==
    IF SlotIsInit(f.slots, step.slot_index)
    THEN [f EXCEPT !.stack = Push(f.stack, f.slots[step.slot_index].value),
                   !.pc = f.pc + 2]
    ELSE [f EXCEPT !.calls = Append(f.calls, [expr |-> f.expr, pc |-> f.pc + 1]),
                   !.expr = step.subexpression_index,
                   !.pc = 0,
                   !.evals[step.slot_index] = @ + 1]

\* The stack after an assignment that always pops.
AfterAssignPops(stack, should_pop) == Pop(stack)
\* The stack after an assignment: AssignSlotAndPop removes the value.
AfterAssign(stack, should_pop) == IF should_pop THEN Pop(stack) ELSE stack

\* The underflow let through: nothing is stored and the step succeeds.
UnderflowIgnored(f) == [f EXCEPT !.pc = f.pc + 1]
\* The assignment asked for with no value on the stack.
Underflow(f) == Fail(f, InternalError("Stack underflow assigning lazy value"))

\* AssignSlot and AssignSlotAndPop.
AssignSlotEvaluate(f, step, should_pop) ==
    IF ~HasEnough(f.stack, 1)
    THEN Underflow(f)
    ELSE [f EXCEPT !.slots[step.slot_index] = SlotOf(Peek(f.stack)),
                   !.stack = AfterAssign(f.stack, should_pop),
                   !.pc = f.pc + 1]

\* The slot left as it is.
ClearSlotKeeps(f, step) == [f EXCEPT !.pc = f.pc + 1]
\* ClearSlot.
ClearSlotEvaluate(f, step) ==
    [f EXCEPT !.slots[step.slot_index] = EmptySlot,
              !.evals[step.slot_index] = 0,
              !.pc = f.pc + 1]

\* A constant step pushes its value.
ConstValueEvaluate(f, step) ==
    [f EXCEPT !.stack = Push(f.stack, step.value), !.pc = f.pc + 1]

FrameOnly ==
    UNCHANGED <<builderVars, valueVars, factoryVars, singletonVars, serverVars,
                moveVars, iteratorVars, legacyVars>>

CheckLazyInitStep ==
    /\ At("CheckLazyInit")
    /\ Len(frame.stack) < kValueStack
    /\ frame' = CheckLazyInitEvaluate(frame, CurrentStep)
    /\ FrameOnly

AssignSlotStep ==
    /\ At("AssignSlot")
    /\ frame' = AssignSlotEvaluate(frame, CurrentStep, FALSE)
    /\ FrameOnly

AssignSlotAndPopStep ==
    /\ At("AssignSlotAndPop")
    /\ frame' = AssignSlotEvaluate(frame, CurrentStep, TRUE)
    /\ FrameOnly

ClearSlotStep ==
    /\ At("ClearSlot")
    /\ frame' = ClearSlotEvaluate(frame, CurrentStep)
    /\ FrameOnly

ConstValueStep ==
    /\ At("ConstValue")
    /\ Len(frame.stack) < kValueStack
    /\ frame' = ConstValueEvaluate(frame, CurrentStep)
    /\ FrameOnly

\* The end of a subexpression: the frame goes back to the step after the
\* call.
SubexpressionReturn ==
    /\ frame.at = "running"
    /\ frame.pc >= Len(CurrentPath)
    /\ frame.calls # <<>>
    /\ frame' = [frame EXCEPT !.expr = Peek(frame.calls).expr,
                              !.pc = Peek(frame.calls).pc,
                              !.calls = Pop(frame.calls)]
    /\ FrameOnly

\* The end of the main path: the value left on top of what the stack held
\* at the start is the result; any other stack size is an error, and the
\* stack is left as it is.
EvaluateReturn ==
    /\ frame.at = "running"
    /\ frame.pc >= Len(CurrentPath)
    /\ frame.calls = <<>>
    /\ frame' = IF Len(frame.stack) # frame.initial_stack_size + 1
                THEN Fail(frame, InternalError("Stack error during execution"))
                ELSE [frame EXCEPT !.at = "returned",
                                   !.result = Peek(frame.stack),
                                   !.stack = Pop(frame.stack)]
    /\ FrameOnly

NextFrame ==
    \/ CheckLazyInitStep
    \/ AssignSlotStep
    \/ AssignSlotAndPopStep
    \/ ClearSlotStep
    \/ ConstValueStep
    \/ SubexpressionReturn
    \/ EvaluateReturn

SpecFrame == InitFrame /\ [][NextFrame]_vars

\* The slot of the step at the program counter.
CurrentSlot == CurrentStep.slot_index

\* C18: a CheckLazyInit step for slot i has the slot's subexpression
\* evaluated only when slot i holds no value; when slot i holds a value the
\* subexpression is not evaluated and the stored value is pushed as the
\* result; so a lazily bound subexpression is evaluated at most once
\* between two clears of its slot.
C18_LazyInitOnce ==
    /\ [](\A i \in Slots : frame # <<>> => frame.evals[i] <= 1)
    /\ [][ \A i \in Slots :
             (frame # <<>> /\ frame'.evals[i] > frame.evals[i])
                => (~frame.slots[i].has /\ At("CheckLazyInit") /\ CurrentSlot = i) ]_vars
    /\ [][ (frame # <<>> /\ At("CheckLazyInit") /\ frame' # frame)
             => IF frame.slots[CurrentSlot].has
                THEN /\ frame'.evals = frame.evals
                     /\ frame'.expr = frame.expr
                     /\ frame'.calls = frame.calls
                     /\ frame'.stack = Append(frame.stack, frame.slots[CurrentSlot].value)
                     /\ frame'.slots = frame.slots
                ELSE /\ frame'.evals[CurrentSlot] = frame.evals[CurrentSlot] + 1
                     /\ frame'.expr = CurrentStep.subexpression_index
                     /\ frame'.pc = 0 ]_vars

\* The subexpression of slot 0 was evaluated by the first CheckLazyInit and
\* assigned; the second CheckLazyInit has just given the stored value and
\* jumped over its assignment, without a second evaluation.
C18_SecondUseSkipsInit ==
    /\ frame # <<>>
    /\ Len(frame.expression_table[1]) = 7
    /\ frame.at = "running" /\ frame.expr = 0 /\ frame.pc = 4
    /\ frame.initial_stack_size = 0
    /\ frame.evals[0] = 1
    /\ frame.slots[0] = SlotOf(Int42)
    /\ frame.stack = <<Int42, Int42>>

\* C19: with a non-empty value stack, AssignSlot(i) stores the value on top
\* of the stack into slot i and leaves the stack unchanged, and
\* AssignSlotAndPop(i) stores the same value into slot i and removes it
\* from the stack; neither touches any other slot.
C19_AssignSlotEffect ==
    [][ ((At("AssignSlot") \/ At("AssignSlotAndPop"))
            /\ frame.stack # <<>> /\ frame' # frame)
          => /\ frame'.slots[CurrentSlot] = SlotOf(frame.stack[Len(frame.stack)])
             /\ \A j \in Slots \ {CurrentSlot} : frame'.slots[j] = frame.slots[j]
             /\ At("AssignSlot") => frame'.stack = frame.stack
             /\ At("AssignSlotAndPop")
                   => /\ Len(frame'.stack) = Len(frame.stack) - 1
                      /\ \A k \in 1..Len(frame'.stack) : frame'.stack[k] = frame.stack[k]
             /\ frame'.status = OkStatus ]_vars

\* Starting with empty slots and the stack <<7, 42>>: AssignSlot(1) has
\* stored 42 and kept the stack, AssignSlotAndPop(2) has stored 42 and
\* removed it; slot 0 is still empty.
C19_AssignedBothWays ==
    /\ frame # <<>>
    /\ frame.expression_table[1][1] = CreateAssignSlotStep(1)
    /\ frame.at = "running" /\ frame.pc = 2
    /\ frame.initial_stack_size = 2
    /\ frame.slots[0] = EmptySlot
    /\ frame.slots[1] = SlotOf(Int42)
    /\ frame.slots[2] = SlotOf(Int42)
    /\ frame.stack = <<Int7>>

\* C20: an AssignSlot step executed while the value stack is empty makes
\* the evaluation fail with the internal error "Stack underflow assigning
\* lazy value"; nothing is read from the stack and no slot is written.
C20_StackUnderflow ==
    [][ (At("AssignSlot") /\ frame.stack = <<>> /\ frame' # frame)
          => /\ frame'.at = "returned"
             /\ frame'.status.code = "internal"
             /\ frame'.status.msg = "Stack underflow assigning lazy value"
             /\ frame'.slots = frame.slots
             /\ frame'.stack = <<>>
             /\ frame'.result = NullValue ]_vars

\* The path of the single step AssignSlot(0), run on an empty stack, has
\* returned the underflow error with slot 0 still empty.
C20_UnderflowReturned ==
    /\ frame # <<>>
    /\ frame.expression_table = << <<CreateAssignSlotStep(0)>> >>
    /\ frame.initial_stack_size = 0
    /\ frame.at = "returned"
    /\ frame.status = InternalError("Stack underflow assigning lazy value")
    /\ frame.slots[0] = EmptySlot

\* C21: after a ClearSlot(i) step has executed, slot i holds no value,
\* whatever it held before.
C21_ClearSlotEmpties ==
    [][ (At("ClearSlot") /\ frame' # frame)
          => /\ ~frame'.slots[CurrentSlot].has
             /\ frame'.slots[CurrentSlot] = EmptySlot
             /\ frame'.status = OkStatus ]_vars

\* Slot 0 held 42 (given by both CheckLazyInit steps before) and the
\* ClearSlot(0) of the long path has just executed: the slot is empty.
C21_FilledSlotCleared ==
    /\ frame # <<>>
    /\ Len(frame.expression_table[1]) = 7
    /\ frame.at = "running" /\ frame.expr = 0 /\ frame.pc = 5
    /\ frame.stack = <<Int42, Int42>>
    /\ frame.slots[0] = EmptySlot

---------------------------------------------------------------------------
(* Properties of the write of a duration or a timestamp to a field.        *)

OneSecondBeyond(max) == Seconds(AddW(max.sec, W(1)))

\* C22: writing a duration or a timestamp to a message field succeeds when
\* the value is exactly the largest duration or time allowed, and fails
\* with an invalid-argument status when it is one second beyond.
C22_TimeBoundsOnWrite ==
    Returned("SetValueToSingleField")
        => /\ (/\ op.self.name = "single_duration"
               /\ op.other = CelValueCreateDuration(MakeGoogleApiDurationMax))
                 => result = OkStatus
           /\ (/\ op.self.name = "single_duration"
               /\ op.other = CelValueCreateDuration(OneSecondBeyond(MakeGoogleApiDurationMax)))
                 => result.code = "invalid_argument"
           /\ (/\ op.self.name = "single_timestamp"
               /\ op.other = CelValueCreateTimestamp(MakeGoogleApiTimeMax))
                 => result = OkStatus
           /\ (/\ op.self.name = "single_timestamp"
               /\ op.other = CelValueCreateTimestamp(OneSecondBeyond(MakeGoogleApiTimeMax)))
                 => result.code = "invalid_argument"

\* The time one second after 9999-12-31T23:59:59Z was written to
\* single_timestamp and refused.
C22_TimeBeyondRefused ==
    /\ Returned("SetValueToSingleField")
    /\ op.self.name = "single_timestamp"
    /\ op.other = TimestampValue(AddW(MaxTimestampSeconds, W(1)), 0)
    /\ result.code = "invalid_argument"

---------------------------------------------------------------------------
(* SpecMove: Value objects are constructed, moved, copied, swapped and     *)
(* used, in a release build (NDEBUG, ABSL_DCHECK compiled out) or in a     *)
(* debug build (a failed ABSL_DCHECK halts the program).                   *)

Objects == {"a", "b", "c"}
\* An object not constructed yet.
NoObject == [kind |-> "none"]
\* The values objects are constructed with and assigned.
Alternatives == {StringValue(<<97>>), MapValue(<<>>)}

\* A moved-from variant that keeps what it held.
MovedFromKeeps(variant) == variant
\* other.variant_.emplace<absl::monostate>().
MovedFrom(variant) == InvalidValue

\* The status-returning operations of Value.
StatusOperations ==
    {"GetSerializedSize", "SerializeTo", "Serialize", "GetTypeUrl",
     "ConvertToAny", "ConvertToJson", "Equal"}

\* What the operation of the alternative held gives; only Equal is followed
\* into the alternative.
Delegated(name) == Ok([kind |-> "delegated", name |-> name])

\* The dispatch of those operations (absl::visit over variant_).
ValueStatusCall(name, self, other) ==
    IF Is(self, "monostate") THEN Err(InternalError("use of invalid Value"))
    ELSE IF name = "Equal" THEN ValueEqual(self, other)
    ELSE Delegated(name)

NoResult == [ok |-> TRUE, val |-> NullValue]
Did(name, target, source, res) ==
    [name |-> name, target |-> target, source |-> source, result |-> res]

InitMove ==
    /\ BuilderInit /\ ValueIdle /\ FactoryIdle /\ SingletonIdle /\ ServerIdle /\ FrameIdle
    /\ IteratorIdle /\ LegacyIdle
    /\ \E build \in Builds, v \in Alternatives :
          values = [build |-> build, at |-> "running",
                    obj |-> [x \in Objects |-> IF x = "a" THEN v ELSE NoObject],
                    last |-> Did("construct", "a", "a", NoResult)]

MoveOnly ==
    UNCHANGED <<builderVars, valueVars, factoryVars, singletonVars, serverVars,
                frameVars, iteratorVars, legacyVars>>

Constructed(x) == values.at = "running" /\ values.obj[x] # NoObject
Halt(name, target, source) ==
    values' = [values EXCEPT !.at = "aborted", !.last = Did(name, target, source, NoResult)]

\* Value(const T&): a new object holding an alternative.
Construct(x, v) ==
    /\ values.at = "running" /\ values.obj[x] = NoObject
    /\ values' = [values EXCEPT !.obj[x] = v, !.last = Did("construct", x, x, NoResult)]
    /\ MoveOnly

\* The views a Value is constructed or assigned from: a view of an
\* alternative, or the default-constructed ValueView, which holds monostate.
Views == Alternatives \cup {InvalidValue}

\* Value(ValueView other): the assertion on the view, then other.ToVariant().
ViewConstruct(x, view) ==
    /\ values.at = "running" /\ values.obj[x] = NoObject
    /\ IF AssertionFails(values.build, view)
       THEN Halt("view-construct", x, x)
       ELSE values' = [values EXCEPT !.obj[x] = view,
                                     !.last = Did("view-construct", x, x, NoResult)]
    /\ MoveOnly

\* Value() = default: a new object in the invalid state.
DefaultConstruct(x) ==
    /\ values.at = "running" /\ values.obj[x] = NoObject
    /\ values' = [values EXCEPT !.obj[x] = InvalidValue,
                                 !.last = Did("default-construct", x, x, NoResult)]
    /\ MoveOnly

\* Value(const Value& other): the assertion on other, then a copy of what
\* other holds.
CopyConstruct(x, other) ==
    /\ values.at = "running" /\ values.obj[x] = NoObject
    /\ Constructed(other)
    /\ IF AssertionFails(values.build, values.obj[other])
       THEN Halt("copy-construct", x, other)
       ELSE values' = [values EXCEPT !.obj[x] = values.obj[other],
                                     !.last = Did("copy-construct", x, other, NoResult)]
    /\ MoveOnly

\* Value(Value&& other).
MoveConstruct(x, other) ==
    /\ values.at = "running" /\ values.obj[x] = NoObject
    /\ Constructed(other)
    /\ IF AssertionFails(values.build, values.obj[other])
       THEN Halt("move-construct", x, other)
       ELSE values' = [values EXCEPT !.obj[x] = values.obj[other],
                                     !.obj[other] = MovedFrom(values.obj[other]),
                                     !.last = Did("move-construct", x, other, NoResult)]
    /\ MoveOnly

\* Value& operator=(Value&& other); moving a Value to itself fails the
\* second assertion of a debug build.
MoveAssign(x, other) ==
    /\ Constructed(x) /\ Constructed(other)
    /\ IF AssertionFails(values.build, values.obj[other])
          \/ (values.build = "debug" /\ x = other)
       THEN Halt("move-assign", x, other)
       ELSE values' = [values EXCEPT
                          !.obj = [y \in Objects |->
                                      IF y = other THEN MovedFrom(values.obj[other])
                                      ELSE IF y = x THEN values.obj[other]
                                      ELSE values.obj[y]],
                          !.last = Did("move-assign", x, other, NoResult)]
    /\ MoveOnly

\* Value& operator=(const Value& other).
CopyAssign(x, other) ==
    /\ Constructed(x) /\ Constructed(other)
    /\ IF AssertionFails(values.build, values.obj[other])
          \/ (values.build = "debug" /\ x = other)
       THEN Halt("copy-assign", x, other)
       ELSE values' = [values EXCEPT !.obj[x] = values.obj[other],
                                     !.last = Did("copy-assign", x, other, NoResult)]
    /\ MoveOnly

\* Value& operator=(const T&): an alternative is assigned.
Assign(x, v) ==
    /\ Constructed(x)
    /\ values' = [values EXCEPT !.obj[x] = v, !.last = Did("assign", x, x, NoResult)]
    /\ MoveOnly

\* Value& operator=(ValueView other): the assertion on the view, then
\* other.ToVariant() is assigned.
ViewAssign(x, view) ==
    /\ Constructed(x)
    /\ IF AssertionFails(values.build, view)
       THEN Halt("view-assign", x, x)
       ELSE values' = [values EXCEPT !.obj[x] = view,
                                     !.last = Did("view-assign", x, x, NoResult)]
    /\ MoveOnly

\* swap(Value& other): both assertions, then the variants are exchanged;
\* a swap with itself leaves the object as it is.
Swap(x, other) ==
    /\ Constructed(x) /\ Constructed(other)
    /\ IF AssertionFails(values.build, values.obj[x])
          \/ AssertionFails(values.build, values.obj[other])
       THEN Halt("swap", x, other)
       ELSE values' = [values EXCEPT
                          !.obj = [y \in Objects |->
                                      IF y = x THEN values.obj[other]
                                      ELSE IF y = other THEN values.obj[x]
                                      ELSE values.obj[y]],
                          !.last = Did("swap", x, other, NoResult)]
    /\ MoveOnly

\* One of the status-returning operations, called on object x.
StatusCall(name, x, other) ==
    /\ Constructed(x)
    /\ IF AssertionFails(values.build, values.obj[x])
       THEN Halt(name, x, x)
       ELSE values' = [values EXCEPT
                          !.last = Did(name, x, x, ValueStatusCall(name, values.obj[x], other))]
    /\ MoveOnly

NextMove ==
    \/ \E x \in Objects, v \in Alternatives : Construct(x, v)
    \/ \E x \in Objects : DefaultConstruct(x)
    \/ \E x, other \in Objects : CopyConstruct(x, other)
    \/ \E x, other \in Objects : MoveConstruct(x, other)
    \/ \E x, other \in Objects : MoveAssign(x, other)
    \/ \E x, other \in Objects : CopyAssign(x, other)
    \/ \E x \in Objects, v \in Alternatives : Assign(x, v)
    \/ \E x, other \in Objects : Swap(x, other)
    \/ \E x \in Objects, view \in Views : ViewConstruct(x, view)
    \/ \E x \in Objects, view \in Views : ViewAssign(x, view)
    \/ \E name \in StatusOperations, x \in Objects, other \in Alternatives :
          StatusCall(name, x, other)

SpecMove == InitMove /\ [][NextMove]_vars

\* C23: a Value that has been move-constructed or move-assigned from is in
\* the invalid state, and stays so until a value is given to it (by an
\* assignment or a swap); in a release build every status-returning
\* operation called on an invalid Value returns an internal error.
C23_MovedFromIsInvalid ==
    /\ [](values # <<>> =>
            /\ (values.at = "running" /\ values.last.name \in {"move-construct", "move-assign"})
                  => values.obj[values.last.source] = InvalidValue
            /\ (/\ values.build = "release"
                /\ values.last.name \in StatusOperations
                /\ values.obj[values.last.target] = InvalidValue)
                  => /\ ~values.last.result.ok
                     /\ values.last.result.status.code = "internal")
    /\ [][ \A x \in Objects :
             (values # <<>> /\ values.obj[x] = InvalidValue /\ values'.obj[x] # InvalidValue)
                => /\ values'.last.name \in {"move-assign", "copy-assign", "assign", "view-assign", "swap"}
                   /\ x \in {values'.last.target, values'.last.source} ]_vars

\* In a release build, object a was moved from and Equal was then called on
\* it: the call returned the internal error.
C23_EqualOnMovedFrom ==
    /\ values # <<>>
    /\ values.build = "release" /\ values.at = "running"
    /\ values.obj["a"] = InvalidValue
    /\ values.obj["b"] \in Alternatives
    /\ values.last = Did("Equal", "a", "a", Err(InternalError("use of invalid Value")))

---------------------------------------------------------------------------
(* SpecIterator: ProtoStructTypeFieldIterator over the descriptor of a     *)
(* struct type; HasNext, Next, NextId, NextName and NextNumber are called  *)
(* in any order.                                                           *)

\* The descriptors iterated: no field; three fields, the second of a
\* message type the type manager does not know; two fields, the first of a
\* type of another implementation; the whole test message.
IteratorDescriptors ==
    { <<>>,
      << DescFindFieldByName("single_int32"), DescFindFieldByName("unregistered_message"),
         DescFindFieldByName("repeated_int64_wrapper") >>,
      << DescFindFieldByName("foreign_message"), DescFindFieldByName("single_string") >>,
      Descriptor }

\* ProtoStructType::MakeFieldId.
MakeFieldId(number) == [id |-> number]

HasNextError ==
    FailedPreconditionError("StructType::FieldIterator::Next() called when StructType::FieldIterator::HasNext() returns false")

\* HasNext.
HasNext(it) == it.index_ < Len(it.descriptor_)

\* descriptor_.field(index_): positions count from 0.
FieldAt(it) == it.descriptor_[it.index_ + 1]

\* The position after a successful call that does not move on.
AdvanceNot(index_) == index_
\* The position after a failed call that moves on.
SkipOnError(index_) == index_ + 1
\* A call that returns an error returns before ++index_.
KeepPosition(index_) == index_
\* ++index_.
Advance(index_) == index_ + 1

\* Next, NextId, NextName, NextNumber: the result and the position after
\* the call.
IteratorNext(it) ==
    IF ~HasNext(it) THEN [result |-> Err(HasNextError), index_ |-> KeepPosition(it.index_)]
    ELSE LET field == FieldAt(it)
             type == FieldDescriptorToType(field)
         IN  IF ~type.ok THEN [result |-> type, index_ |-> KeepPosition(it.index_)]
             ELSE [result |-> Ok(Field(type.val, field)), index_ |-> Advance(it.index_)]
IteratorNextId(it) ==
    IF ~HasNext(it) THEN [result |-> Err(HasNextError), index_ |-> KeepPosition(it.index_)]
    ELSE [result |-> Ok(MakeFieldId(FieldAt(it).number)), index_ |-> Advance(it.index_)]
IteratorNextName(it) ==
    IF ~HasNext(it) THEN [result |-> Err(HasNextError), index_ |-> KeepPosition(it.index_)]
    ELSE [result |-> Ok([name |-> FieldAt(it).name]), index_ |-> Advance(it.index_)]
IteratorNextNumber(it) ==
    IF ~HasNext(it) THEN [result |-> Err(HasNextError), index_ |-> KeepPosition(it.index_)]
    ELSE [result |-> Ok([number |-> FieldAt(it).number]), index_ |-> Advance(it.index_)]

\* NewFieldIterator: the iterator at position 0.  got lists the numbers of
\* the fields the successful calls returned, in the order of the calls.
InitIterator ==
    /\ BuilderInit /\ ValueIdle /\ FactoryIdle /\ SingletonIdle /\ ServerIdle /\ FrameIdle
    /\ MoveIdle /\ LegacyIdle
    /\ \E descriptor \in IteratorDescriptors :
          iterator = [descriptor_ |-> descriptor, index_ |-> 0, got |-> <<>>,
                      called |-> "NewFieldIterator", has_next |-> FALSE,
                      result |-> Ok(NullValue)]

IteratorOnly ==
    UNCHANGED <<builderVars, valueVars, factoryVars, singletonVars, serverVars,
                frameVars, moveVars, legacyVars>>

CallHasNext ==
    /\ iterator' = [iterator EXCEPT !.called = "HasNext", !.has_next = HasNext(iterator),
                                    !.result = Ok(NullValue)]
    /\ IteratorOnly

\* One of the four Next calls, next being its operator.
CallOf(name, next) ==
    /\ iterator' = [iterator EXCEPT
                       !.called = name,
                       !.result = next.result,
                       !.index_ = next.index_,
                       !.got = IF next.result.ok
                               THEN Append(@, FieldAt(iterator).number) ELSE @]
    /\ IteratorOnly

CallNext == CallOf("Next", IteratorNext(iterator))
CallNextId == CallOf("NextId", IteratorNextId(iterator))
CallNextName == CallOf("NextName", IteratorNextName(iterator))
CallNextNumber == CallOf("NextNumber", IteratorNextNumber(iterator))

NextIterator ==
    \/ CallHasNext
    \/ CallNext
    \/ CallNextId
    \/ CallNextName
    \/ CallNextNumber

SpecIterator == InitIterator /\ [][NextIterator]_vars

NextCalls == {"Next", "NextId", "NextName", "NextNumber"}
\* The field a successful call returned, by its number.
ReturnedNumber ==
    CASE iterator.called = "Next"       -> iterator.result.val.hint.number
      [] iterator.called = "NextId"     -> iterator.result.val.id
      [] iterator.called = "NextName"   ->
            (CHOOSE f \in {iterator.descriptor_[i] : i \in 1..Len(iterator.descriptor_)} :
                f.name = iterator.result.val.name).number
      [] iterator.called = "NextNumber" -> iterator.result.val.number

\* C24: the k-th successful Next, NextId, NextName or NextNumber call
\* returns field k of the schema's declared order, and HasNext is true
\* exactly while fewer than n fields have been returned.
C24_DeclaredOrder ==
    iterator # <<>> =>
        LET n == Len(iterator.descriptor_)
            k == Len(iterator.got)
        IN  /\ k <= n
            /\ \A j \in 1..k : iterator.got[j] = iterator.descriptor_[j].number
            /\ (iterator.called \in NextCalls /\ iterator.result.ok)
                  => ReturnedNumber = iterator.descriptor_[k].number
            /\ HasNext(iterator) <=> k < n
            /\ iterator.called = "HasNext" => (iterator.has_next <=> k < n)

\* All fields of the test message have been returned, the last by
\* NextName, and HasNext has then answered false.
C24_AllFieldsReturned ==
    /\ iterator # <<>>
    /\ iterator.descriptor_ = Descriptor
    /\ Len(iterator.got) = Len(Descriptor)
    /\ iterator.called = "HasNext"
    /\ ~iterator.has_next

\* C30: the position never exceeds the field count, and a Next, NextId,
\* NextName or NextNumber call that returns an error does not advance the
\* position, so that the next successful call returns the same field.
C30_ErrorKeepsPosition ==
    /\ [](iterator # <<>> =>
            /\ iterator.index_ \in 0..Len(iterator.descriptor_)
            /\ iterator.index_ = Len(iterator.got))
    /\ [][ (iterator # <<>> /\ iterator'.called \in NextCalls /\ iterator' # iterator
              /\ ~iterator'.result.ok)
             => /\ iterator'.index_ = iterator.index_
                /\ iterator'.got = iterator.got ]_vars
    /\ [][ (iterator # <<>> /\ iterator'.called \in NextCalls /\ iterator'.result.ok)
             => /\ iterator'.got = Append(iterator.got, FieldAt(iterator).number)
                /\ iterator'.index_ = iterator.index_ + 1 ]_vars

\* Next has just failed on the second field, whose message type is not
\* known; the position is still 1.
C30_UnresolvedFieldNotSkipped ==
    /\ iterator # <<>>
    /\ Len(iterator.descriptor_) = 3
    /\ iterator.called = "Next"
    /\ ~iterator.result.ok
    /\ iterator.result.status.code = "not_found"
    /\ iterator.index_ = 1
    /\ iterator.got = <<1>>

\* C14: the result of every call on a field iterator is a value or an error
\* with one of the codes invalid argument, not found, out of range,
\* unimplemented, internal, unavailable.
C14_ErrorCodesClosed ==
    iterator # <<>> =>
        (iterator.result.ok \/ iterator.result.status.code \in ErrorCodes)

\* C14, the case that fails: Next was called on the iterator of a struct
\* type without fields, where HasNext is false, and returned the error
\* "failed precondition".
C14_FailedPreconditionReturned ==
    /\ iterator # <<>>
    /\ iterator.descriptor_ = <<>>
    /\ iterator.called = "Next"
    /\ ~HasNext(iterator)
    /\ iterator.result = Err(HasNextError)
    /\ HasNextError.code = "failed_precondition"

---------------------------------------------------------------------------
(* Further properties of the struct builder.                               *)

\* C25: setting a wrapper-typed field to null leaves that field unset in
\* the message, also when the field was set to a non-null value earlier in
\* the same builder.
C25_NullClearsWrapper ==
    (/\ CalledField # nullptr
     /\ CalledField.message_type = "google.protobuf.Int64Value"
     /\ ~is_repeated(CalledField)
     /\ Is(lastCall.value, "null"))
        => /\ status = OkStatus
           /\ message[CalledField.name] = Unset
           /\ \A name \in FieldNames \ {CalledField.name} :
                 message[name] = lastCall.before[name]

\* single_int64_wrapper held 1 from the first call; the second call set it
\* to null and the field is unset.
C25_SetThenNull ==
    /\ ncalls = 2
    /\ lastCall.by = "name" /\ lastCall.name = "single_int64_wrapper"
    /\ Is(lastCall.value, "null")
    /\ lastCall.before["single_int64_wrapper"].has
    /\ status = OkStatus
    /\ message["single_int64_wrapper"] = Unset

\* C26: a SetFieldByName or SetFieldByNumber call that returns an error
\* leaves the message exactly as it was before the call.
C26_ErrorLeavesMessage ==
    (lastCall.by # "none" /\ status # OkStatus) => message = lastCall.before

\* C26, the case that fails: repeated_int32 held two elements; the write of
\* the list [1, 2^31] returned the out-of-range error of its second element
\* and left the field holding [1].
C26_PartialWrite ==
    /\ ncalls = 2
    /\ lastCall.by = "name" /\ lastCall.name = "repeated_int32"
    /\ Len(lastCall.before["repeated_int32"]) = 2
    /\ lastCall.value = ListValue(SimpleType("int"),
                                  <<IntValue(W(1)), IntValue(AddW(Int32Max, W(1)))>>)
    /\ status.code = "out_of_range"
    /\ message["repeated_int32"] = <<W(1)>>

IsUint32Field(field_desc) == field_desc.type \in {"TYPE_UINT32", "TYPE_FIXED32"}
InUint32Range(w) == ~ULess(UInt32Max, w)

\* C27: a uint written to a uint32 or fixed32 field succeeds exactly when
\* it is at most 2^32-1, for a singular field and for every element of a
\* list written to a repeated field alike.
C27_Uint32Range ==
    (CalledField # nullptr /\ IsUint32Field(CalledField))
        => /\ (~is_repeated(CalledField) /\ Is(lastCall.value, "uint"))
                 => (status = OkStatus <=> InUint32Range(lastCall.value.uint))
           /\ (/\ is_repeated(CalledField)
               /\ Is(lastCall.value, "list")
               /\ lastCall.value.element.kind = "uint"
               /\ \A i \in 1..Len(lastCall.value.elems) : Is(lastCall.value.elems[i], "uint"))
                 => (status = OkStatus
                       <=> \A i \in 1..Len(lastCall.value.elems) :
                              InUint32Range(lastCall.value.elems[i].uint))

\* C27, the case that fails: the list [1, 2^32-1] written to
\* repeated_uint32 is refused as out of range, its second element being
\* above 2^31-1.
C27_RepeatedUint32MaxRefused ==
    /\ ncalls = 1
    /\ lastCall.by = "name" /\ lastCall.name = "repeated_uint32"
    /\ lastCall.value = ListValue(SimpleType("uint"), <<UintValue(W(1)), UintValue(UInt32Max)>>)
    /\ InUint32Range(UInt32Max)
    /\ status.code = "out_of_range"
    /\ message["repeated_uint32"] = <<W(1)>>

---------------------------------------------------------------------------
(* A further property of the conformance server.                           *)

\* C28: when the request line of a parse, eval or ping command cannot be
\* decoded (it is not base64, or its bytes are no protobuf message), the
\* server still writes one response line for that command and goes on to
\* read the next command.
C28_UndecodableAnswered ==
    (/\ CommandRead
     /\ server.cmd \in {"parse", "eval", "ping"}
     /\ LastRequest.status # OkStatus)
        => /\ server.at = "loop"
           /\ Len(server.out) = server.commands

\* C28, the case that fails: the request line of a parse command holds the
\* source "+" and then a truncated field; Decode fails, the request keeps
\* the source parsed so far, and the process ends without a response.
C28_UndecodableParseTerminates ==
    /\ server.commands = 1
    /\ server.cmd = "parse"
    /\ server.input = Base64Escape(<<10, 1, 43, 10>>)
    /\ LastRequest.status = InvalidArgumentError("invalid proto bytes")
    /\ server.at = "terminated"
    /\ server.out = <<>>

---------------------------------------------------------------------------
(* SpecLegacy: threads call the operations of LegacyMapValue and           *)
(* LegacyMapValueView that go through legacy_map_value_vtable; each calls  *)
(* InitializeLegacyMapValue first.                                         *)

Users == 1..MaxUsers

\* The entries of legacy_map_value_vtable, in the order they are assigned.
Entries ==
    <<"debug_string", "get_serialized_size", "serialize_to", "convert_to_json_object",
      "is_empty", "size", "get", "find", "has", "list_keys", "for_each", "new_iterator">>
EntryNames == {Entries[i] : i \in 1..Len(Entries)}

\* A caller that also goes on while another caller runs the function.
CallOnceReturnsUnlessInit(flag) == flag # "kOnceInit"
\* absl::call_once returns to a caller that did not run the function only
\* when the function has completed.
CallOnceReturns(flag) == flag = "kOnceDone"

\* The table is constant-initialised: the flag unset, every entry null.
InitLegacy ==
    /\ BuilderInit /\ ValueIdle /\ FactoryIdle /\ SingletonIdle /\ ServerIdle /\ FrameIdle
    /\ MoveIdle /\ IteratorIdle
    /\ legacy = [init_once |-> "kOnceInit",
                 vtable |-> [e \in EntryNames |-> "nullptr"],
                 at |-> "running",
                 fills |-> 0,
                 through |-> {},
                 user |-> [t \in Users |-> [pc |-> "idle", entry |-> "", next |-> 0, uses |-> 0]]]

LegacyOnly ==
    UNCHANGED <<builderVars, valueVars, factoryVars, singletonVars, serverVars,
                frameVars, moveVars, iteratorVars>>

UserAt(t, pc_) == legacy.at = "running" /\ legacy.user[t].pc = pc_

\* A thread calls an operation: DebugString, GetSerializedSize, ..,
\* NewIterator, of a LegacyMapValue or a LegacyMapValueView.
Operation(t, entry) ==
    /\ UserAt(t, "idle")
    /\ legacy.user[t].uses < MaxUses
    /\ legacy' = [legacy EXCEPT !.user[t] = [pc |-> "call_once", entry |-> entry, next |-> 0,
                                             uses |-> @.uses + 1]]
    /\ LegacyOnly

\* absl::call_once, the first caller: it runs the function.
InitializeEnter(t) ==
    /\ UserAt(t, "call_once")
    /\ CallOnceEnters(legacy.init_once)
    /\ legacy' = [legacy EXCEPT !.init_once = "kOnceRunning",
                                !.fills = @ + 1,
                                !.user[t].pc = "fill",
                                !.user[t].next = 1]
    /\ LegacyOnly

\* The function: the next entry is assigned the symbol FindSymbolOrDie
\* found.
InitializeFill(t) ==
    /\ UserAt(t, "fill")
    /\ legacy.user[t].next <= Len(Entries)
    /\ legacy' = [legacy EXCEPT !.vtable[Entries[legacy.user[t].next]] = "symbol",
                                !.user[t].next = @ + 1]
    /\ LegacyOnly

\* FindSymbolOrDie does not find the symbol: the process ends.
InitializeDie(t) ==
    /\ UserAt(t, "fill")
    /\ legacy.user[t].next <= Len(Entries)
    /\ legacy' = [legacy EXCEPT !.at = "died"]
    /\ LegacyOnly

\* The function has returned: the flag is set done and call_once returns.
InitializeExit(t) ==
    /\ UserAt(t, "fill")
    /\ legacy.user[t].next > Len(Entries)
    /\ legacy' = [legacy EXCEPT !.init_once = "kOnceDone", !.user[t].pc = "call"]
    /\ LegacyOnly

\* absl::call_once, any other caller: it returns once the function has
\* completed, and waits until then.
InitializeDone(t) ==
    /\ UserAt(t, "call_once")
    /\ ~CallOnceEnters(legacy.init_once)
    /\ CallOnceReturns(legacy.init_once)
    /\ legacy' = [legacy EXCEPT !.user[t].pc = "call"]
    /\ LegacyOnly

\* (*legacy_map_value_vtable.entry)(impl_, ..): the call through the entry;
\* through records the entry and the pointer read from it.
CallThrough(t) ==
    /\ UserAt(t, "call")
    /\ legacy' = [legacy EXCEPT
                     !.through = @ \cup {<<legacy.user[t].entry,
                                          legacy.vtable[legacy.user[t].entry]>>},
                     !.user[t].pc = "idle"]
    /\ LegacyOnly

NextLegacy ==
    \/ \E t \in Users, entry \in EntryNames : Operation(t, entry)
    \/ \E t \in Users : InitializeEnter(t)
    \/ \E t \in Users : InitializeFill(t)
    \/ \E t \in Users : InitializeDie(t)
    \/ \E t \in Users : InitializeExit(t)
    \/ \E t \in Users : InitializeDone(t)
    \/ \E t \in Users : CallThrough(t)

SpecLegacy == InitLegacy /\ [][NextLegacy]_vars

\* C29: under every interleaving of the operations of the threads, the
\* function table is filled in at most once, and no operation calls
\* through an entry before the one-time initialisation has completed: no
\* entry is used while null.
C29_TableInitialisedOnce ==
    /\ [](legacy # <<>> =>
            /\ legacy.fills <= 1
            /\ \A u \in legacy.through : u[2] # "nullptr"
            /\ \A t \in Users :
                  legacy.user[t].pc = "call"
                     => /\ legacy.init_once = "kOnceDone"
                        /\ \A e \in EntryNames : legacy.vtable[e] # "nullptr")
    /\ [][ \A e \in EntryNames :
             (legacy # <<>> /\ legacy.vtable[e] # "nullptr")
                => legacy'.vtable[e] = legacy.vtable[e] ]_vars

\* Both threads have called through the table, one through its first entry
\* and one through its last, after a single initialisation.
C29_BothThreadsCalledThrough ==
    /\ legacy # <<>>
    /\ legacy.fills = 1
    /\ legacy.through = {<<"debug_string", "symbol">>, <<"new_iterator", "symbol">>}
    /\ legacy.user[1].uses = 1 /\ legacy.user[2].uses = 1

===========================================================================
